---- MODULE Spec2Model ----
(***************************************************************************)
(* A model of the Intcode machine of src/intcode/src/intcode.rs over the   *)
(* i32 cell domain (num::i32): the two-tier memory, the decode/execute     *)
(* step, and the execute_until_input / execute_to_end driver loops.        *)
(***************************************************************************)
EXTENDS Integers, Sequences, FiniteSets, TLC

\* i32::MAX: the cell domain modelled is i32 and relative_base is an i32.
MaxI32 == 2147483647

MinI32 == (-MaxI32) - 1

(***************************************************************************)
(* Option<T> and the numeric capability record num::i32().                 *)
(***************************************************************************)
None == [some |-> FALSE, v |-> 0]

Some(x) == [some |-> TRUE, v |-> x]

\* num::i32().to_usize
i32_to_usize(x) == IF x < 0 THEN None ELSE Some(x)

\* num::i32().to_i32
i32_to_i32(x) == Some(x)

\* num::i32().zero
i32_zero == 0

\* num::i32().one
i32_one == 1

(***************************************************************************)
(* i32 arithmetic.  An overflowing + or * panics when the build has        *)
(* overflow checks (debug profile) and wraps modulo 2^32 otherwise         *)
(* (release profile).  All intermediate values stay inside the i32 range.  *)
(***************************************************************************)
add_overflows(a, b) ==
    \/ b > 0 /\ a > MaxI32 - b
    \/ b < 0 /\ a < MinI32 - b

wrapping_add(a, b) ==
    IF ~add_overflows(a, b) THEN a + b
    ELSE IF b > 0 THEN ((a - MaxI32) + (b - MaxI32)) - 2
    ELSE ((a + MaxI32) + (b + MaxI32)) + 2

Abs(a) == IF a < 0 THEN -a ELSE a

mul_overflows(a, b) ==
    IF a = 0 \/ b = 0 THEN FALSE
    ELSE IF a = MinI32 THEN b # 1
    ELSE IF b = MinI32 THEN a # 1
    ELSE IF (a > 0) = (b > 0) THEN Abs(a) > MaxI32 \div Abs(b)
    ELSE /\ Abs(a) > MaxI32 \div Abs(b)
         /\ ~(/\ MaxI32 \div Abs(b) = Abs(a) - 1
              /\ MaxI32 % Abs(b) = Abs(b) - 1)

\* x * 2^k modulo 2^32 as an i32, for k = 16 and k = 8.
wrapping_shl16(x) ==
    LET low == x % 65536 IN
    (IF low >= 32768 THEN low - 65536 ELSE low) * 65536

wrapping_shl8(x) ==
    LET low == x % 16777216 IN
    (IF low >= 8388608 THEN low - 16777216 ELSE low) * 256

\* The low 32 bits of a * b, from 16-bit limbs: a = ah * 2^16 + al.
wrapping_mul(a, b) ==
    IF ~mul_overflows(a, b) THEN a * b
    ELSE
    LET al == a % 65536
        ah == a \div 65536
        bl == b % 65536
        bh == b \div 65536
        cross == ((ah * bl) % 65536) + ((al * bh) % 65536)
    IN wrapping_add(
         wrapping_add(wrapping_shl8(al * (bl \div 256)), al * (bl % 256)),
         wrapping_shl16(cross))

(***************************************************************************)
(* The 64-bit cell domains (i64, u64, and usize on a 64-bit target).  A    *)
(* value is its eight bytes, least significant first, in two's complement  *)
(* for i64: every value has one representation, so = is equality of        *)
(* values.                                                                 *)
(***************************************************************************)
\* The bytes of the integer k of the i32 range, sign-extended to 64 bits.
wide(k) ==
    [i \in 1 .. 8 |->
        CASE i = 1 -> k % 256
          [] i = 2 -> (k \div 256) % 256
          [] i = 3 -> (k \div 65536) % 256
          [] i = 4 -> (k \div 16777216) % 256
          [] OTHER -> IF k < 0 THEN 255 ELSE 0]

\* The sign bit of an i64.
wide_negative(x) == x[8] >= 128

\* The value lies in the i32 range, read as signed (i64) or unsigned (u64).
wide_fits_i32(x, signed) ==
    \/ (\A i \in 5 .. 8 : x[i] = 0) /\ x[4] < 128
    \/ signed /\ (\A i \in 5 .. 8 : x[i] = 255) /\ x[4] >= 128

\* The integer a value of the i32 range stands for (`x as i32`).
wide_as_i32(x) ==
    x[1] + 256 * x[2] + 65536 * x[3]
        + 16777216 * (IF x[4] >= 128 THEN x[4] - 256 ELSE x[4])

\* a < b on the bit patterns read as unsigned.
wide_below(a, b) ==
    \E i \in 1 .. 8 : a[i] < b[i] /\ \A j \in (i + 1) .. 8 : a[j] = b[j]

\* `a < b`, signed (i64) or unsigned (u64, usize).
wide_lt(a, b, signed) ==
    IF signed /\ wide_negative(a) # wide_negative(b) THEN wide_negative(a)
    ELSE wide_below(a, b)

\* The carry out of byte i of a + b.
RECURSIVE wide_carry(_, _, _)
wide_carry(a, b, i) ==
    IF i = 0 THEN 0 ELSE (a[i] + b[i] + wide_carry(a, b, i - 1)) \div 256

\* a + b modulo 2^64.
wide_wrapping_add(a, b) ==
    [i \in 1 .. 8 |-> (a[i] + b[i] + wide_carry(a, b, i - 1)) % 256]

wide_add_overflows(a, b, signed) ==
    IF signed
    THEN /\ wide_negative(a) = wide_negative(b)
         /\ wide_negative(wide_wrapping_add(a, b)) # wide_negative(a)
    ELSE wide_carry(a, b, 8) = 1

\* -x modulo 2^64; for an i64 read as unsigned afterwards it is |x|.
wide_wrapping_neg(x) == wide_wrapping_add([i \in 1 .. 8 |-> 255 - x[i]], wide(1))

\* Byte i of a value extended with zero bytes.
wide_byte(x, i) == IF i \in 1 .. 8 THEN x[i] ELSE 0

\* Column k of the schoolbook product: the sum of a[i] * b[k + 1 - i], i <= n.
RECURSIVE wide_column(_, _, _, _)
wide_column(a, b, k, n) ==
    IF n = 0 THEN 0
    ELSE wide_byte(a, n) * wide_byte(b, k + 1 - n) + wide_column(a, b, k, n - 1)

\* Column k with the carry of the columns below it.
RECURSIVE wide_column_total(_, _, _)
wide_column_total(a, b, k) ==
    IF k = 0 THEN 0
    ELSE wide_column(a, b, k, 8) + (wide_column_total(a, b, k - 1) \div 256)

\* The sixteen bytes of the product of two unsigned 64-bit values.
wide_full_mul(a, b) == [k \in 1 .. 16 |-> wide_column_total(a, b, k) % 256]

\* a * b modulo 2^64 (the same bits for signed and unsigned operands).
wide_wrapping_mul(a, b) == [k \in 1 .. 8 |-> wide_column_total(a, b, k) % 256]

wide_mul_overflows(a, b, signed) ==
    IF ~signed THEN \E k \in 9 .. 16 : wide_full_mul(a, b)[k] # 0
    ELSE
    LET ma == IF wide_negative(a) THEN wide_wrapping_neg(a) ELSE a
        mb == IF wide_negative(b) THEN wide_wrapping_neg(b) ELSE b
        m == wide_full_mul(ma, mb)
    IN
    \/ \E k \in 9 .. 16 : m[k] # 0
    \/ /\ m[8] >= 128
       /\ \/ wide_negative(a) = wide_negative(b)
          \/ m[8] > 128
          \/ \E k \in 1 .. 7 : m[k] # 0

(***************************************************************************)
(* The build profile: TRUE when integer overflow panics (debug), FALSE     *)
(* when it wraps (release).  Fixed for the life of the process.            *)
(***************************************************************************)
VARIABLE overflow_checks

(***************************************************************************)
(* The cell domain T of MachineState<T>, named by the num constructor the  *)
(* caller passes to every call: "i32", "i64", "u64" or "usize".  Fixed for *)
(* the life of the machine.                                                *)
(***************************************************************************)
VARIABLE num

\* Result<T, E> of the helpers; err "Panic" is an arithmetic-overflow abort.
Ok(x) == [ok |-> TRUE, v |-> x, err |-> "None"]

Err(e) == [ok |-> FALSE, v |-> 0, err |-> e]

(***************************************************************************)
(* Ast (src/intcode/src/ast.rs): an expression is a tuple whose first      *)
(* element is the variant's name; a Condition likewise.  Constants and     *)
(* values are i64 in the source; the expressions drawn below keep every    *)
(* value far inside that range, so `+` and `*` are the integers'.          *)
(***************************************************************************)
Constant(i) == <<"Constant", i>>

Zero == <<"Zero">>

One == <<"One">>

AddNode(a, b) == <<"AddNode", a, b>>

MulNode(a, b) == <<"MulNode", a, b>>

IfEqThen(a, b, eq_res, neq_res) == <<"IfEqThen", a, b, eq_res, neq_res>>

IfLessThen(a, b, if_less, if_geq) == <<"IfLessThen", a, b, if_less, if_geq>>

Variable(c) == <<"Variable", c>>

LessThan(a, b) == <<"LessThan", a, b>>

Equal(a, b) == <<"Equal", a, b>>

NotEqual(a, b) == <<"NotEqual", a, b>>

NotLess(a, b) == <<"NotLess", a, b>>

\* List::new, List::prepend; iter yields the latest prepended first.
new == <<>>

prepend(list, elem) == <<elem>> \o list

\* The pattern Ast::Constant(k).
is_constant(ast, k) == ast[1] = "Constant" /\ ast[2] = k

\* Ast::strict_equal
RECURSIVE strict_equal(_, _)
\* Mutant of strict_equal: Zero and One are taken for Constant(0) and
\* Constant(1) at the root only; below it the trees must be identical.
strict_equal_shallow(self, other) ==
    CASE self[1] = "Constant" /\ other[1] = "Zero" -> self[2] = 0
      [] self[1] = "Zero" /\ other[1] = "Constant" -> other[2] = 0
      [] self[1] = "Constant" /\ other[1] = "One" -> self[2] = 1
      [] self[1] = "One" /\ other[1] = "Constant" -> other[2] = 1
      [] OTHER -> self[1] = other[1] /\ self = other

strict_equal(self, other) ==
    CASE self[1] = "Constant" /\ other[1] = "Constant" -> self[2] = other[2]
      [] self[1] = "Constant" /\ other[1] = "Zero" -> self[2] = 0
      [] self[1] = "Zero" /\ other[1] = "Constant" -> other[2] = 0
      [] self[1] = "Constant" /\ other[1] = "One" -> self[2] = 1
      [] self[1] = "One" /\ other[1] = "Constant" -> other[2] = 1
      [] self[1] = "Zero" /\ other[1] = "Zero" -> TRUE
      [] self[1] = "One" /\ other[1] = "One" -> TRUE
      [] self[1] \in {"AddNode", "MulNode"} /\ other[1] = self[1] ->
            strict_equal(self[2], other[2]) /\ strict_equal(self[3], other[3])
      [] self[1] \in {"IfEqThen", "IfLessThen"} /\ other[1] = self[1] ->
            /\ strict_equal(self[2], other[2])
            /\ strict_equal(self[3], other[3])
            /\ strict_equal(self[4], other[4])
            /\ strict_equal(self[5], other[5])
      [] self[1] = "Variable" /\ other[1] = "Variable" -> self[2] = other[2]
      [] OTHER -> FALSE

\* The code point of a variable's name, for the order of char.
char_code(c) == IF c = "x" THEN 120 ELSE 121

\* `<` of Result<i64, char> (derived): every Ok is below every Err.
result_lt(r1, r2) ==
    IF r1.ok /\ r2.ok THEN r1.v < r2.v
    ELSE IF r1.ok THEN TRUE
    ELSE IF r2.ok THEN FALSE
    ELSE char_code(r1.err) < char_code(r2.err)

\* Ast::eval; var is the lookup, a function on the names that have a value.
\* The comparands of a conditional are compared as Results, without `?`.
\* Ok(x? + y?) and Ok(x? * y?): the first Err met is passed on.
sum(x, y) == IF ~x.ok THEN x ELSE IF ~y.ok THEN y ELSE Ok(x.v + y.v)

product(x, y) == IF ~x.ok THEN x ELSE IF ~y.ok THEN y ELSE Ok(x.v * y.v)

RECURSIVE eval(_, _)
eval(self, var) ==
    CASE self[1] = "Constant" -> Ok(self[2])
      [] self[1] = "Zero" -> Ok(0)
      [] self[1] = "One" -> Ok(1)
      [] self[1] = "Variable" ->
            IF self[2] \in DOMAIN var THEN Ok(var[self[2]]) ELSE Err(self[2])
      [] self[1] = "AddNode" -> sum(eval(self[2], var), eval(self[3], var))
      [] self[1] = "MulNode" -> product(eval(self[2], var), eval(self[3], var))
      [] self[1] = "IfEqThen" ->
            IF eval(self[2], var) = eval(self[3], var)
            THEN eval(self[4], var)
            ELSE eval(self[5], var)
      [] self[1] = "IfLessThen" ->
            IF result_lt(eval(self[2], var), eval(self[3], var))
            THEN eval(self[4], var)
            ELSE eval(self[5], var)

\* Mutant of first_match: the scan takes the oldest matching condition.
first_match_oldest(a, b, conditions, kinds) ==
    LET hits == { i \in 1 .. Len(conditions) :
                    /\ conditions[i][1] \in kinds
                    /\ strict_equal(a, conditions[i][2])
                    /\ strict_equal(b, conditions[i][3]) }
    IN IF hits = {} THEN 0 ELSE CHOOSE i \in hits : \A j \in hits : i >= j

\* The `for cond in conditions.iter()` of simplify: the index of the first
\* condition of one of the kinds whose operands strict_equal a and b, or 0.
first_match(a, b, conditions, kinds) ==
    LET hits == { i \in 1 .. Len(conditions) :
                    /\ conditions[i][1] \in kinds
                    /\ strict_equal(a, conditions[i][2])
                    /\ strict_equal(b, conditions[i][3]) }
    IN IF hits = {} THEN 0 ELSE CHOOSE i \in hits : \A j \in hits : i <= j

\* The operand forms of simplify's match on (a, b) that settle an IfEqThen.
is_concrete(a) == a[1] \in {"Constant", "Zero", "One"}

\* Mutant of equal_concrete: only the (Constant, Constant) arm finds equality.
equal_concrete_constants_only(a, b) ==
    a[1] = "Constant" /\ b[1] = "Constant" /\ a[2] = b[2]

\* Whether that match takes eq_res: the thirteen arms on Constant, Zero, One.
equal_concrete(a, b) == eval(a, <<>>) = eval(b, <<>>)

\* The call stack of a run of simplify has run out: the process is aborted.
Exhausted == <<"Exhausted">>

\* The node n, built once its operands have been returned.
built(n) == IF \E i \in 2 .. Len(n) : n[i] = Exhausted THEN Exhausted ELSE n

\* Ast::simplify, with `depth` nested calls of it left on the call stack.
RECURSIVE simplify_in(_, _, _)
\* Mutant of push_outward: the sum or product is simplified anew as it is.
push_outward_not_at_all(op, c, other, conditions, depth) ==
    simplify_in(<<op, c, other>>, conditions, depth - 1)

\* The operation is moved into the first branch only.
push_outward_first_branch_only(op, c, other, conditions, depth) ==
    built(IfLessThen(c[2], c[3],
                     simplify_in(<<op, c[4], other>>,
                                 prepend(conditions, LessThan(c[2], c[3])), depth - 1),
                     c[5]))

\* The rules of AddNode and MulNode for an IfLessThen operand c: the
\* operation with the other operand is moved into both branches, each
\* simplified under the conditions and the fact of its branch.
push_outward(op, c, other, conditions, depth) ==
    built(IfLessThen(c[2], c[3],
                     simplify_in(<<op, c[4], other>>,
                                 prepend(conditions, LessThan(c[2], c[3])), depth - 1),
                     simplify_in(<<op, c[5], other>>,
                                 prepend(conditions, NotLess(c[2], c[3])), depth - 1)))

simplify_in(self, conditions, depth) ==
    IF depth = 0 THEN Exhausted ELSE
    CASE self[1] \in {"Constant", "Zero", "One", "Variable"} -> self
      [] self[1] = "IfEqThen" ->
            LET a == simplify_in(self[2], conditions, depth - 1)
                b == simplify_in(self[3], conditions, depth - 1)
                eq_res == self[4]
                neq_res == self[5]
                m == first_match(a, b, conditions, {"NotEqual", "Equal", "LessThan"})
            IN
            IF a = Exhausted \/ b = Exhausted THEN Exhausted
            ELSE IF m # 0
            THEN IF conditions[m][1] = "Equal" THEN simplify_in(eq_res, conditions, depth - 1)
                 ELSE simplify_in(neq_res, conditions, depth - 1)
            ELSE IF is_concrete(a) /\ is_concrete(b)
            THEN IF equal_concrete(a, b) THEN simplify_in(eq_res, conditions, depth - 1)
                 ELSE simplify_in(neq_res, conditions, depth - 1)
            ELSE IF a[1] = "Variable" /\ b[1] = "Variable" /\ a[2] = b[2]
            THEN simplify_in(eq_res, conditions, depth - 1)
            ELSE built(IfEqThen(a, b,
                    simplify_in(eq_res, prepend(conditions, Equal(a, b)), depth - 1),
                    simplify_in(neq_res, prepend(conditions, NotEqual(a, b)), depth - 1)))
      [] self[1] = "IfLessThen" ->
            LET a == simplify_in(self[2], conditions, depth - 1)
                b == simplify_in(self[3], conditions, depth - 1)
                if_less == self[4]
                if_geq == self[5]
                m == first_match(a, b, conditions, {"Equal", "LessThan", "NotLess"})
            IN
            IF a = Exhausted \/ b = Exhausted THEN Exhausted
            ELSE IF m # 0
            THEN IF conditions[m][1] = "LessThan" THEN simplify_in(if_less, conditions, depth - 1)
                 ELSE simplify_in(if_geq, conditions, depth - 1)
            ELSE built(IfLessThen(a, b,
                    simplify_in(if_less, prepend(conditions, LessThan(a, b)), depth - 1),
                    simplify_in(if_geq, prepend(conditions, NotLess(a, b)), depth - 1)))
      [] self[1] = "AddNode" ->
            LET l == simplify_in(self[2], conditions, depth - 1)
                r == simplify_in(self[3], conditions, depth - 1)
            IN
            IF l = Exhausted \/ r = Exhausted THEN Exhausted
            ELSE IF is_constant(l, 0) \/ l[1] = "Zero" THEN r
            ELSE IF is_constant(r, 0) \/ r[1] = "Zero" THEN l
            ELSE IF l[1] = "Constant" /\ r[1] = "Constant" THEN Constant(l[2] + r[2])
            ELSE IF l[1] = "Constant" /\ r[1] = "One" THEN Constant(l[2] + 1)
            ELSE IF l[1] = "Constant" /\ r[1] = "Variable" THEN AddNode(l, r)
            ELSE IF l[1] = "One" /\ r[1] = "Constant" THEN Constant(r[2] + 1)
            ELSE IF l[1] = "One" /\ r[1] = "One" THEN Constant(2)
            ELSE IF l[1] = "One" /\ r[1] = "Variable" THEN AddNode(l, r)
            ELSE IF l[1] = "Variable" THEN AddNode(r, l)
            ELSE IF l[1] \in {"Constant", "One"} /\ r[1] = "AddNode"
            THEN built(AddNode(simplify_in(AddNode(l, r[2]), conditions, depth - 1), r[3]))
            ELSE IF l[1] \in {"Constant", "One"} /\ r[1] = "MulNode" THEN AddNode(l, r)
            ELSE IF l[1] = "AddNode"
            THEN built(AddNode(l[2], simplify_in(AddNode(l[3], r), conditions, depth - 1)))
            ELSE IF l[1] = "IfLessThen" /\ r[1] = "Constant"
            THEN push_outward("AddNode", l, r, conditions, depth)
            ELSE IF l[1] = "Constant" /\ r[1] = "IfLessThen"
            THEN push_outward("AddNode", r, l, conditions, depth)
            ELSE AddNode(l, r)
      [] self[1] = "MulNode" ->
            LET l == simplify_in(self[2], conditions, depth - 1)
                r == simplify_in(self[3], conditions, depth - 1)
            IN
            IF l = Exhausted \/ r = Exhausted THEN Exhausted
            ELSE IF r[1] = "Zero" \/ is_constant(r, 0) THEN Zero
            ELSE IF is_constant(l, 0) \/ l[1] = "Zero" THEN Zero
            ELSE IF is_constant(l, 1) \/ l[1] = "One" THEN r
            ELSE IF r[1] = "One" \/ is_constant(r, 1) THEN l
            ELSE IF l[1] = "Constant" /\ r[1] = "Constant" THEN Constant(l[2] * r[2])
            ELSE IF l[1] = "Constant" /\ r[1] = "Variable" THEN MulNode(l, r)
            ELSE IF l[1] = "Variable" /\ r[1] = "Constant" THEN MulNode(r, l)
            ELSE IF r[1] = "Constant" THEN simplify_in(MulNode(r, l), conditions, depth - 1)
            ELSE IF l[1] = "Constant" /\ r[1] = "AddNode"
            THEN simplify_in(AddNode(MulNode(l, r[2]), MulNode(l, r[3])), conditions, depth - 1)
            ELSE IF l[1] = "Variable" /\ r[1] = "Variable" THEN MulNode(l, r)
            ELSE IF l[1] = "Constant" /\ r[1] = "MulNode"
            THEN built(MulNode(simplify_in(MulNode(l, r[2]), conditions, depth - 1), r[3]))
            ELSE IF l[1] = "IfLessThen"
            THEN push_outward("MulNode", l, r, conditions, depth)
            ELSE IF r[1] = "IfLessThen"
            THEN push_outward("MulNode", r, l, conditions, depth)
            ELSE MulNode(l, r)

\* The nested calls of simplify the call stack has room for.
MaxDepth == 16

\* Ast::simplify, called with the whole call stack free
simplify(self, conditions) == simplify_in(self, conditions, MaxDepth)

\* No expression yet.
NoAst == <<"None">>

(***************************************************************************)
(* List (src/intcode/src/linked_list.rs) with its nodes: a Link is 0 for   *)
(* None or the place of an Rc<Node<T>> among the nodes allocated so far.   *)
(* (new and prepend above are the same list taken as the sequence of its   *)
(* elements.)                                                              *)
(***************************************************************************)
Node(elem, next_link) == [elem |-> elem, next |-> next_link]

List(head) == [head |-> head]

\* List::new
List_new == List(0)

\* Mutant of List_prepend: the element is put into the head node of self,
\* whose former content moves to a new node behind it.
List_prepend_in_place(heap, self, elem) ==
    IF self.head = 0
    THEN [nodes |-> Append(heap, Node(elem, 0)), list |-> List(Len(heap) + 1)]
    ELSE [nodes |-> [Append(heap, heap[self.head]) EXCEPT
                        ![self.head] = Node(elem, Len(heap) + 1)],
          list |-> List(self.head)]

\* List::prepend: the nodes afterwards and the List returned
List_prepend(heap, self, elem) ==
    [nodes |-> Append(heap, Node(elem, self.head)), list |-> List(Len(heap) + 1)]

Iter(next_link) == [next |-> next_link]

\* List::iter
List_iter(self) == Iter(self.head)

\* Mutant of Iter_next: the iterator moves on by two nodes.
Iter_next_by_two(heap, self) ==
    IF self.next = 0 THEN [item |-> None, iter |-> self]
    ELSE [item |-> Some(heap[self.next].elem),
          iter |-> Iter(IF heap[self.next].next = 0 THEN 0
                        ELSE heap[heap[self.next].next].next)]

\* <Iter as Iterator>::next: the item returned and the iterator afterwards
Iter_next(heap, self) ==
    IF self.next = 0 THEN [item |-> None, iter |-> self]
    ELSE [item |-> Some(heap[self.next].elem), iter |-> Iter(heap[self.next].next)]

RECURSIVE Ast_add(_, _)
\* impl Add for Ast
Ast_add(self, rhs) ==
    CASE self[1] = "Zero" -> rhs
      [] rhs[1] = "Zero" -> self
      [] is_constant(self, 0) -> rhs
      [] is_constant(rhs, 0) -> self
      [] self[1] = "Constant" /\ rhs[1] = "Constant" -> Constant(self[2] + rhs[2])
      [] self[1] = "AddNode" -> Ast_add(self[2], Ast_add(self[3], rhs))
      [] self[1] = "Constant" /\ rhs[1] = "IfLessThen" ->
            IfLessThen(rhs[2], rhs[3], Ast_add(rhs[4], self), Ast_add(rhs[5], self))
      [] self[1] = "IfLessThen" /\ rhs[1] = "Constant" ->
            IfLessThen(self[2], self[3], Ast_add(self[4], rhs), Ast_add(self[5], rhs))
      [] self[1] = "Constant" /\ rhs[1] = "AddNode" ->
            IF rhs[2][1] = "Constant"
            THEN Ast_add(Constant(self[2] + rhs[2][2]), rhs[3])
            ELSE AddNode(self, AddNode(rhs[2], rhs[3]))
      [] self[1] = "IfLessThen" /\ rhs[1] = "IfLessThen" ->
            IF strict_equal(self[2], rhs[2]) /\ strict_equal(self[3], rhs[3])
            THEN IfLessThen(self[2], self[3],
                            Ast_add(self[4], rhs[4]), Ast_add(self[5], rhs[5]))
            ELSE AddNode(self, rhs)
      [] rhs[1] = "MulNode" ->
            IF is_constant(rhs[3], -1)
            THEN IF strict_equal(self, rhs[2]) THEN Zero
                 ELSE AddNode(self, MulNode(rhs[2], Constant(-1)))
            ELSE AddNode(self, rhs)
      [] OTHER -> AddNode(self, rhs)

RECURSIVE Ast_mul(_, _)
\* impl Mul for Ast
Ast_mul(self, rhs) ==
    CASE \/ self[1] = "Zero"
         \/ rhs[1] = "Zero"
         \/ is_constant(self, 0)
         \/ is_constant(rhs, 0) -> Zero
      [] self[1] = "One" -> rhs
      [] rhs[1] = "One" -> self
      [] is_constant(self, 1) -> rhs
      [] is_constant(rhs, 1) -> self
      [] self[1] = "Constant" /\ rhs[1] = "Constant" -> Constant(self[2] * rhs[2])
      [] self[1] = "Constant" /\ rhs[1] = "AddNode" ->
            Ast_add(Ast_mul(self, rhs[2]), Ast_mul(self, rhs[3]))
      [] self[1] = "AddNode" /\ rhs[1] = "Constant" ->
            Ast_add(Ast_mul(rhs, self[2]), Ast_mul(rhs, self[3]))
      [] self[1] = "Constant" /\ rhs[1] = "MulNode" ->
            IF rhs[2][1] = "Constant"
            THEN Ast_mul(Constant(self[2] * rhs[2][2]), rhs[3])
            ELSE MulNode(self, MulNode(rhs[2], rhs[3]))
      [] self[1] = "IfLessThen" /\ rhs[1] = "Constant" ->
            IfLessThen(self[2], self[3], Ast_mul(self[4], rhs), Ast_mul(self[5], rhs))
      [] self[1] = "Constant" /\ rhs[1] = "IfLessThen" ->
            IfLessThen(rhs[2], rhs[3], Ast_mul(rhs[4], self), Ast_mul(rhs[5], self))
      [] self[1] = "MulNode" -> Ast_mul(self[2], Ast_mul(self[3], rhs))
      [] self[1] = "IfLessThen" /\ rhs[1] = "Variable" ->
            IfLessThen(self[2], self[3], Ast_mul(self[4], rhs), Ast_mul(self[5], rhs))
      [] OTHER -> MulNode(self, rhs)

\* The closure `|_| None` the conversions and comparisons evaluate under.
no_variables == <<>>

\* <Ast as Num>::zero, ::one
Ast_zero == Zero

Ast_one == One

\* to_usize's match on what eval returned
as_usize(r) ==
    IF ~r.ok THEN None
    ELSE IF r.v < 0 THEN None ELSE Some(r.v)

\* <Ast as Num>::to_usize
Ast_to_usize(self) == as_usize(eval(self, no_variables))

\* to_i32's match on what eval returned
as_i32(r) ==
    IF ~r.ok THEN None
    ELSE IF r.v <= MaxI32 /\ r.v >= MinI32 THEN Some(r.v) ELSE None

\* <Ast as Num>::to_i32
Ast_to_i32(self) == as_i32(eval(self, no_variables))

\* The "absolute value" pattern if_less_then_else looks for in `other`:
\* IfLessThen(a, Variable(v), Variable(v), MulNode(Constant(-1), Variable(v)))
\* with a strict_equal to Zero.
absolute_value_pattern(other) ==
    /\ other[1] = "IfLessThen"
    /\ strict_equal(other[2], Zero)
    /\ other[3][1] = "Variable"
    /\ other[4][1] = "Variable"
    /\ other[5][1] = "MulNode"
    /\ other[3][2] = other[4][2]
    /\ is_constant(other[5][2], -1)
    /\ other[5][3][1] = "Variable"
    /\ other[4][2] = other[5][3][2]

\* <Ast as Num>::if_less_then_else
if_less_then_else(self, other, if_less, if_not_less) ==
    IF (is_constant(self, 0) \/ self[1] = "Zero") /\ absolute_value_pattern(other)
    THEN if_less
    ELSE IfLessThen(self, other, if_less, if_not_less)

\* <Ast as Num>::if_eq_then_else
if_eq_then_else(self, other, if_eq, if_neq) == IfEqThen(self, other, if_eq, if_neq)

\* PartialEq::eq and Ord::cmp abort when either side fails to evaluate.
Ast_panics(self, other) ==
    ~eval(self, no_variables).ok \/ ~eval(other, no_variables).ok

\* impl PartialEq for Ast, where it returns
Ast_eq(self, other) == eval(self, no_variables).v = eval(other, no_variables).v

\* impl Ord for Ast (`<`), where it returns
Ast_lt(self, other) == eval(self, no_variables).v < eval(other, no_variables).v


\* i32 `+` as compiled under the build profile.
i32_add(a, b) ==
    IF add_overflows(a, b) /\ overflow_checks THEN Err("Panic")
    ELSE Ok(wrapping_add(a, b))

\* i32 `*` as compiled under the build profile.
i32_mul(a, b) ==
    IF mul_overflows(a, b) /\ overflow_checks THEN Err("Panic")
    ELSE Ok(wrapping_mul(a, b))

\* num::i64().to_usize; `x as usize` is kept as an integer below 2^31, the
\* addresses of the model, and as the value itself beyond.
wide_as_usize(x) == IF wide_fits_i32(x, FALSE) THEN wide_as_i32(x) ELSE x

i64_to_usize(x) == IF wide_negative(x) THEN None ELSE Some(wide_as_usize(x))

\* num::i64().to_i32 with the check against i32::MIN left out
i64_to_i32_upper_bound_only(x) ==
    IF ~wide_fits_i32(x, FALSE) THEN None ELSE Some(wide_as_i32(x))

\* num::i64().to_i32
i64_to_i32(x) == IF ~wide_fits_i32(x, TRUE) THEN None ELSE Some(wide_as_i32(x))

\* num::u64().to_usize and num::usize().to_usize
u64_to_usize(x) == Some(wide_as_usize(x))

\* num::u64().to_i32 and num::usize().to_i32
u64_to_i32(x) == IF ~wide_fits_i32(x, FALSE) THEN None ELSE Some(wide_as_i32(x))

\* (num.to_usize)(x)
to_usize(x) ==
    CASE num = "i32" -> i32_to_usize(x)
      [] num = "ast" -> Ast_to_usize(x)
      [] num = "i64" -> i64_to_usize(x)
      [] OTHER -> u64_to_usize(x)

\* (num.to_i32)(x)
to_i32(x) ==
    CASE num = "i32" -> i32_to_i32(x)
      [] num = "ast" -> Ast_to_i32(x)
      [] num = "i64" -> i64_to_i32(x)
      [] OTHER -> u64_to_i32(x)

\* num.zero and num.one
zero ==
    CASE num = "i32" -> i32_zero
      [] num = "ast" -> Ast_zero
      [] OTHER -> wide(i32_zero)

one ==
    CASE num = "i32" -> i32_one
      [] num = "ast" -> Ast_one
      [] OTHER -> wide(i32_one)

\* A 64-bit `+` that drops the carries between bytes.
wide_add_carryless(a, b) == Ok([i \in 1 .. 8 |-> (a[i] + b[i]) % 256])

\* A 64-bit `*` that keeps the low 32 bits of the product only.
wide_mul_truncated(a, b) ==
    Ok([i \in 1 .. 8 |-> IF i <= 4 THEN wide_wrapping_mul(a, b)[i] ELSE 0])

\* 64-bit `+` and `*` as compiled under the build profile.
wide_add(a, b) ==
    IF wide_add_overflows(a, b, num = "i64") /\ overflow_checks THEN Err("Panic")
    ELSE Ok(wide_wrapping_add(a, b))

wide_mul(a, b) ==
    IF wide_mul_overflows(a, b, num = "i64") /\ overflow_checks THEN Err("Panic")
    ELSE Ok(wide_wrapping_mul(a, b))

\* T's `+`, `*` and `<`.
add(a, b) ==
    CASE num = "i32" -> i32_add(a, b)
      [] num = "ast" -> Ok(Ast_add(a, b))
      [] OTHER -> wide_add(a, b)

mul(a, b) ==
    CASE num = "i32" -> i32_mul(a, b)
      [] num = "ast" -> Ok(Ast_mul(a, b))
      [] OTHER -> wide_mul(a, b)

lt(a, b) ==
    CASE num = "i32" -> a < b
      [] num = "ast" -> Ast_lt(a, b)
      [] OTHER -> wide_lt(a, b, num = "i64")

\* T's `==`.
eq(a, b) == IF num = "ast" THEN Ast_eq(a, b) ELSE a = b

\* Whether a comparison of a with b aborts: only the symbolic domain's can.
cmp_panics(a, b) == num = "ast" /\ Ast_panics(a, b)

\* Opcodes 7 and 8 over the symbolic domain: the comparison is kept as a
\* conditional node over the two operands, with one and zero as branches.
Ast_less_than(a, b) == Ok(if_less_then_else(a, b, Ast_one, Ast_zero))

Ast_equals(a, b) == Ok(if_eq_then_else(a, b, Ast_one, Ast_zero))

(***************************************************************************)
(* MachineState<T>  : a record of the four fields.  sparse_memory is a     *)
(* function whose domain is the set of keys present in the HashMap.        *)
(***************************************************************************)
MachineState(mem, sparse, p, rb) ==
    [memory |-> mem, sparse_memory |-> sparse, pc |-> p, relative_base |-> rb]

EmptyMap == [x \in {} |-> 0]

new_with_memory(mem) == MachineState(mem, EmptyMap, 0, 0)

\* reset assigns pc and replaces the dense vector; the other fields stay.
reset(self, mem) == [self EXCEPT !.pc = 0, !.memory = mem]

\* Mutant of set_mem_elt: a write beyond the dense vector is pushed onto it.
set_mem_elt_push(self, i, new_val) ==
    IF i < Len(self.memory)
    THEN [self EXCEPT !.memory[i + 1] = new_val]
    ELSE [self EXCEPT !.memory = Append(self.memory, new_val)]

\* Addresses are 0-based in the source; sequences are 1-based here.
set_mem_elt(self, i, new_val) ==
    IF i < Len(self.memory)
    THEN [self EXCEPT !.memory[i + 1] = new_val]
    ELSE [self EXCEPT !.sparse_memory =
            [x \in (DOMAIN self.sparse_memory) \cup {i} |->
                IF x = i THEN new_val ELSE self.sparse_memory[x]]]

\* Mutant of read_mem_elt: the sparse tier is never consulted.
read_mem_elt_dense_only(self, i) ==
    IF i < Len(self.memory) THEN self.memory[i + 1] ELSE zero

\* Mutant of read_mem_elt: an address absent from both tiers reads as the
\* last cell of the dense tier.
read_mem_elt_last_cell(self, i) ==
    IF i < Len(self.memory) THEN self.memory[i + 1]
    ELSE IF i \in DOMAIN self.sparse_memory THEN self.sparse_memory[i]
    ELSE self.memory[Len(self.memory)]

read_mem_elt(self, i) ==
    IF i < Len(self.memory) THEN self.memory[i + 1]
    ELSE IF i \in DOMAIN self.sparse_memory THEN self.sparse_memory[i]
    ELSE zero

dump_memory(self) == self.memory

\* ParameterMode::of_int
of_int(u) ==
    CASE u = 0 -> "Position"
      [] u = 1 -> "Immediate"
      [] u = 2 -> "Relative"
      [] OTHER -> "None"

\* Mutant of read_param: a relative-mode operand read as a position-mode one.
read_param_base_ignored(self, i, mode) ==
    CASE mode = "Immediate" -> Ok(read_mem_elt(self, i))
      [] OTHER ->
            LET pos == to_usize(read_mem_elt(self, i)) IN
            IF ~pos.some THEN Err("Negative")
            ELSE Ok(read_mem_elt(self, pos.v))

read_param(self, i, mode) ==
    CASE mode = "Immediate" -> Ok(read_mem_elt(self, i))
      [] mode = "Position" ->
            LET pos == to_usize(read_mem_elt(self, i)) IN
            IF ~pos.some THEN Err("Negative")
            ELSE Ok(read_mem_elt(self, pos.v))
      [] mode = "Relative" ->
            LET offset == to_i32(read_mem_elt(self, i)) IN
            IF ~offset.some THEN Err("Overflow")
            ELSE LET target == i32_add(self.relative_base, offset.v) IN
                 IF ~target.ok THEN target
                 ELSE IF target.v >= 0 THEN Ok(read_mem_elt(self, target.v))
                 ELSE Err("Negative")

(***************************************************************************)
(* StepResult / MachineExecutionError, flattened: kind is one of           *)
(*   Stepped, Output(a), AwaitingInput(a), Terminated,                     *)
(*   BadOpcode(a, b), Negative, Overflow, NoInput, BadParameterMode(a),    *)
(*   Panic (the process aborted inside the call).                          *)
(***************************************************************************)
Res(kind, a, b) == [kind |-> kind, a |-> a, b |-> b]

Stepped == Res("Stepped", 0, 0)

Terminated == Res("Terminated", 0, 0)

Output(v) == Res("Output", v, 0)

AwaitingInput(loc) == Res("AwaitingInput", loc, 0)

BadOpcode(bad, at) == Res("BadOpcode", bad, at)

BadParameterMode(opcode) == Res("BadParameterMode", opcode, 0)

\* From<MemoryAccessError>: OutOfBounds(Negative | Overflow), or the abort.
OutOfBounds(e) == Res(e, 0, 0)

\* A call's effect: the machine afterwards and what the call returned.
Step(self, res) == [self |-> self, res |-> res]

\* Mutant of result_pos: an immediate-mode destination taken as a position.
result_pos_immediate_as_position(self, opcode) ==
    LET mode_3 == of_int((opcode \div 10000) % 10) IN
    CASE mode_3 = "None" -> Err("BadParameterMode")
      [] mode_3 = "Relative" ->
            LET offset == to_i32(read_mem_elt(self, self.pc + 3)) IN
            IF ~offset.some THEN Err("Negative")
            ELSE LET target == i32_add(self.relative_base, offset.v) IN
                 IF ~target.ok THEN target
                 ELSE IF target.v < 0 THEN Err("Negative")
                 ELSE Ok(target.v)
      [] OTHER ->
            LET pos == to_usize(read_mem_elt(self, self.pc + 3)) IN
            IF ~pos.some THEN Err("Negative") ELSE Ok(pos.v)

\* The write destination of opcodes 1, 2, 7, 8 (third operand).
result_pos(self, opcode) ==
    LET mode_3 == of_int((opcode \div 10000) % 10) IN
    CASE mode_3 = "None" -> Err("BadParameterMode")
      [] mode_3 = "Relative" ->
            LET offset == to_i32(read_mem_elt(self, self.pc + 3)) IN
            IF ~offset.some THEN Err("Negative")
            ELSE LET target == i32_add(self.relative_base, offset.v) IN
                 IF ~target.ok THEN target
                 ELSE IF target.v < 0 THEN Err("Negative")
                 ELSE Ok(target.v)
      [] mode_3 = "Position" ->
            LET pos == to_usize(read_mem_elt(self, self.pc + 3)) IN
            IF ~pos.some THEN Err("Negative") ELSE Ok(pos.v)
      [] mode_3 = "Immediate" -> Err("BadParameterMode")

\* Mutant of less_than: not strict.
less_than_or_equal(a, b) == Ok(IF lt(a, b) \/ a = b THEN one ELSE zero)

\* The closures one_step hands to process_binary_op.
less_than(a, b) ==
    IF num = "ast" THEN Ast_less_than(a, b)
    ELSE Ok(IF lt(a, b) THEN one ELSE zero)

equals(a, b) ==
    IF num = "ast" THEN Ast_equals(a, b)
    ELSE Ok(IF eq(a, b) THEN one ELSE zero)

\* Mutant of call_process: opcode 2 is handed the closure of opcode 1.
call_process_add_for_mul(process, a, b) ==
    CASE process = 1 -> add(a, b)
      [] process = 2 -> add(a, b)
      [] process = 7 -> less_than(a, b)
      [] process = 8 -> equals(a, b)

\* The call process(arg_1, arg_2), the closure being named by its opcode.
call_process(process, a, b) ==
    CASE process = 1 -> add(a, b)
      [] process = 2 -> mul(a, b)
      [] process = 7 -> less_than(a, b)
      [] process = 8 -> equals(a, b)

\* Mutant of process_binary_op: pc is advanced before the destination is
\* resolved, so a failing destination leaves pc moved.
process_binary_op_pc_first(self, opcode, process) ==
    IF opcode >= 100000 THEN Step(self, BadParameterMode(opcode))
    ELSE
    LET mode_1 == of_int((opcode \div 100) % 10)
        mode_2 == of_int((opcode \div 1000) % 10)
        moved == [self EXCEPT !.pc = self.pc + 4]
    IN
    IF mode_1 = "None" \/ mode_2 = "None"
    THEN Step(self, BadParameterMode(opcode))
    ELSE
    LET arg_1 == read_param(self, self.pc + 1, mode_1) IN
    IF ~arg_1.ok THEN Step(self, OutOfBounds(arg_1.err))
    ELSE
    LET arg_2 == read_param(self, self.pc + 2, mode_2) IN
    IF ~arg_2.ok THEN Step(self, OutOfBounds(arg_2.err))
    ELSE
    LET dest == result_pos(self, opcode) IN
    IF ~dest.ok
    THEN IF dest.err = "BadParameterMode"
         THEN Step(moved, BadParameterMode(opcode))
         ELSE Step(moved, OutOfBounds(dest.err))
    ELSE
    LET result == call_process(process, arg_1.v, arg_2.v) IN
    IF ~result.ok THEN Step(self, OutOfBounds(result.err))
    ELSE Step(set_mem_elt(moved, dest.v, result.v), Stepped)

process_binary_op(self, opcode, process) ==
    IF opcode >= 100000 THEN Step(self, BadParameterMode(opcode))
    ELSE
    LET mode_1 == of_int((opcode \div 100) % 10)
        mode_2 == of_int((opcode \div 1000) % 10)
    IN
    IF mode_1 = "None" \/ mode_2 = "None"
    THEN Step(self, BadParameterMode(opcode))
    ELSE
    LET arg_1 == read_param(self, self.pc + 1, mode_1) IN
    IF ~arg_1.ok THEN Step(self, OutOfBounds(arg_1.err))
    ELSE
    LET arg_2 == read_param(self, self.pc + 2, mode_2) IN
    IF ~arg_2.ok THEN Step(self, OutOfBounds(arg_2.err))
    ELSE
    LET dest == result_pos(self, opcode) IN
    IF ~dest.ok
    THEN IF dest.err = "BadParameterMode"
         THEN Step(self, BadParameterMode(opcode))
         ELSE Step(self, OutOfBounds(dest.err))
    ELSE
    LET result == call_process(process, arg_1.v, arg_2.v) IN
    IF ~result.ok THEN Step(self, OutOfBounds(result.err))
    ELSE Step([set_mem_elt(self, dest.v, result.v) EXCEPT !.pc = self.pc + 4],
              Stepped)

\* Opcode 3: the address the awaited input is to be stored at.
input_location(self, opcode) ==
    LET mode == of_int((opcode \div 100) % 10) IN
    CASE mode = "None" -> Err("BadParameterMode")
      [] mode = "Immediate" -> Err("BadParameterMode")
      [] mode = "Position" ->
            LET location == to_usize(read_mem_elt(self, self.pc + 1)) IN
            IF ~location.some THEN Err("Negative") ELSE Ok(location.v)
      [] mode = "Relative" ->
            LET offset == to_i32(read_mem_elt(self, self.pc + 1)) IN
            IF ~offset.some THEN Err("Overflow")
            ELSE LET target == i32_add(self.relative_base, offset.v) IN
                 IF ~target.ok THEN target
                 ELSE IF target.v < 0 THEN Err("Negative")
                 ELSE Ok(target.v)

is_nonzero(x) == ~eq(x, zero)

\* Mutant of is_zero: opcode 6 with the test of opcode 5.
is_zero_inverted(x) == x # zero

is_zero(x) == eq(x, zero)

\* The test of the comparand: opcode 5 jumps on non-zero, opcode 6 on zero.
taken(op, comparand) ==
    IF op = 5 THEN is_nonzero(comparand) ELSE is_zero(comparand)

\* Opcodes 5 and 6.
jump_op(self, opcode, op) ==
    IF opcode >= 10000 THEN Step(self, BadParameterMode(opcode))
    ELSE
    LET mode_comparand == of_int((opcode \div 100) % 10) IN
    IF mode_comparand = "None" THEN Step(self, BadParameterMode(opcode))
    ELSE
    LET comparand == read_param(self, self.pc + 1, mode_comparand) IN
    IF ~comparand.ok THEN Step(self, OutOfBounds(comparand.err))
    ELSE IF cmp_panics(comparand.v, zero) THEN Step(self, OutOfBounds("Panic"))
    ELSE IF taken(op, comparand.v)
    THEN LET mode_target == of_int((opcode \div 1000) % 10) IN
         IF mode_target = "None" THEN Step(self, BadParameterMode(opcode))
         ELSE
         LET target == read_param(self, self.pc + 2, mode_target) IN
         IF ~target.ok THEN Step(self, OutOfBounds(target.err))
         ELSE
         LET new_pc == to_usize(target.v) IN
         IF ~new_pc.some THEN Step(self, OutOfBounds("Negative"))
         ELSE Step([self EXCEPT !.pc = new_pc.v], Stepped)
    ELSE Step([self EXCEPT !.pc = self.pc + 3], Stepped)

\* Mutant of halt: the program counter moves past the halt instruction.
halt_advancing(self, opcode) ==
    IF opcode # 99 THEN Step(self, BadParameterMode(opcode))
    ELSE Step([self EXCEPT !.pc = self.pc + 1], Terminated)

\* one_step, opcode 99.
halt(self, opcode) ==
    IF opcode # 99 THEN Step(self, BadParameterMode(opcode))
    ELSE Step(self, Terminated)

one_step(self) ==
    LET cell == to_usize(read_mem_elt(self, self.pc)) IN
    IF ~cell.some THEN Step(self, OutOfBounds("Negative"))
    ELSE
    LET opcode == cell.v
        op == opcode % 100
    IN
    CASE op = 1 -> process_binary_op(self, opcode, 1)
      [] op = 2 -> process_binary_op(self, opcode, 2)
      [] op = 3 ->
            IF opcode >= 1000 THEN Step(self, BadParameterMode(opcode))
            ELSE
            LET location == input_location(self, opcode) IN
            IF ~location.ok
            THEN IF location.err = "BadParameterMode"
                 THEN Step(self, BadParameterMode(opcode))
                 ELSE Step(self, OutOfBounds(location.err))
            ELSE Step([self EXCEPT !.pc = self.pc + 2],
                      AwaitingInput(location.v))
      [] op = 4 ->
            IF opcode >= 1000 THEN Step(self, BadParameterMode(opcode))
            ELSE
            LET mode == of_int((opcode \div 100) % 10) IN
            IF mode = "None" THEN Step(self, BadParameterMode(opcode))
            ELSE
            LET to_output == read_param(self, self.pc + 1, mode) IN
            IF ~to_output.ok THEN Step(self, OutOfBounds(to_output.err))
            ELSE Step([self EXCEPT !.pc = self.pc + 2], Output(to_output.v))
      [] op = 5 -> jump_op(self, opcode, 5)
      [] op = 6 -> jump_op(self, opcode, 6)
      [] op = 7 -> process_binary_op(self, opcode, 7)
      [] op = 8 -> process_binary_op(self, opcode, 8)
      [] op = 9 ->
            IF opcode >= 1000 THEN Step(self, BadParameterMode(opcode))
            ELSE
            LET mode == of_int((opcode \div 100) % 10) IN
            IF mode = "None" THEN Step(self, BadParameterMode(opcode))
            ELSE
            LET value == read_param(self, self.pc + 1, mode) IN
            IF ~value.ok THEN Step(self, OutOfBounds(value.err))
            ELSE
            LET increment == to_i32(value.v) IN
            IF ~increment.some THEN Step(self, OutOfBounds("Overflow"))
            ELSE
            LET base == i32_add(self.relative_base, increment.v) IN
            IF ~base.ok THEN Step(self, OutOfBounds(base.err))
            ELSE Step([self EXCEPT !.relative_base = base.v,
                                   !.pc = self.pc + 2], Stepped)
      [] op = 99 -> halt(self, opcode)
      [] OTHER -> Step(self, BadOpcode(op, self.pc))

(***************************************************************************)
(* State.  The four machine fields; the caller's position (the stack of    *)
(* calls in progress) with the locals of execute_to_end; what the last     *)
(* top-level call returned; and history of the run for the properties.     *)
(***************************************************************************)
VARIABLES
    memory,          \* MachineState.memory (dense tier)
    sparse_memory,   \* MachineState.sparse_memory
    pc,              \* MachineState.pc
    relative_base,   \* MachineState.relative_base
    stack,           \* calls in progress, outermost first
    get_input,       \* execute_to_end: what is left of the input iterator
    outputs,         \* execute_to_end: the accumulating Vec
    eui_ret,         \* what execute_until_input returned to execute_to_end
    ret,             \* what the last top-level call returned
    image0,          \* history: the image the machine was built or reset from
    inputs0,         \* history: the input sequence handed to execute_to_end
    prev,            \* history: the machine before the latest one_step
    last,            \* history: what the latest one_step returned
    requests,        \* history: addresses of the AwaitingInput results so far
    emitted,         \* history: values of the Output results so far
    fed,             \* history: <<address, value>> writes made by execute_to_end
    eui_start,       \* history: the machine when execute_until_input was entered
    eui_trace,       \* history: one_step results inside that call
    shadow,          \* history: address -> value latest written since construction
    resets,          \* history: number of reset calls
    calls            \* history: number of top-level calls made by the caller

machine_vars == <<memory, sparse_memory, pc, relative_base>>

driver_vars == <<stack, get_input, outputs, eui_ret, ret>>

history_vars == <<image0, inputs0, prev, last, requests, emitted, fed,
                  eui_start, eui_trace, shadow, resets, calls>>

\* The symbolic side (day_19 part_2): the expression a symbolic run output,
\* the condition list, its simplifications, and the lookup of an eval.
VARIABLES
    ast,             \* the expression
    conds,           \* the List<Condition> passed to simplify
    simplified,      \* ast.simplify(conds), or NoAst
    resimplified,    \* ast.simplify(conds).simplify(conds), or NoAst
    lookup,          \* the variables' values of the latest eval
    evaluated        \* the results of eval on the three expressions, or <<>>

ast_vars == <<ast, conds, simplified, resimplified, lookup, evaluated>>

VARIABLES
    args,            \* the operands a function of ast.rs or a conversion is applied to
    results          \* what the applications returned, or <<>>

pure_vars == <<args, results>>

VARIABLES
    nodes,           \* the Rc<Node<T>> allocated so far: [elem, next], next a Link
    lists,           \* the List<T> values made so far: [head], head a Link
    iters,           \* the Iter values made so far, with what each has yielded
    made             \* history: for each list, the prepend call that returned it

list_vars == <<nodes, lists, iters, made>>

VARIABLES
    numbers,         \* day_7: the program part_1 / part_2 was given
    phase,           \* the phase permutation of this iteration
    caller,          \* "part_1" or "part_2"
    machines,        \* [MachineState<i32>; N]
    readiness,       \* [ExecutionState<i32>; N]
    frame,           \* where the caller and execute are, and execute's locals
    outcome,         \* what initialise or execute returned
    emitted_by_last, \* history: what machine N - 1 emitted during this call
    traffic          \* history of this iteration: per machine what it emitted,
                     \* what execute wrote into it and what it last reported;
                     \* what execute returned; the last resumption

day7_vars == <<numbers, phase, caller, machines, readiness, frame, outcome,
               emitted_by_last, traffic>>

\* What the machine and the simplifier leave alone.
other_vars == <<pure_vars, list_vars, day7_vars>>

vars == <<overflow_checks, num, machine_vars, driver_vars, history_vars, ast_vars,
          other_vars>>

Self == MachineState(memory, sparse_memory, pc, relative_base)

Becomes(m) ==
    /\ memory' = m.memory
    /\ sparse_memory' = m.sparse_memory
    /\ pc' = m.pc
    /\ relative_base' = m.relative_base

NoRes == Res("None", 0, 0)

\* A top-level return value: a step result or error, or Ok(outputs).
Ret(res, out) == [kind |-> res.kind, a |-> res.a, b |-> res.b, out |-> out]

NoRet == Ret(NoRes, <<>>)

\* A top-level call has returned and the caller has control.
Returned == stack = <<>> /\ ret.kind # "None"

Top == IF stack = <<>> THEN "caller" ELSE stack[Len(stack)]

Pop == SubSeq(stack, 1, Len(stack) - 1)

\* The <<address, value>> the instruction at pc stores when it succeeds
\* (opcodes 1, 2, 7, 8: process_binary_op's set_mem_elt), as a set.
stored(self) ==
    LET cell == to_usize(read_mem_elt(self, self.pc))
        op == cell.v % 100
    IN
    IF ~cell.some \/ op \notin {1, 2, 7, 8} \/ one_step(self).res.kind # "Stepped"
    THEN {}
    ELSE {<<result_pos(self, cell.v).v,
            call_process(op,
                read_param(self, self.pc + 1, of_int((cell.v \div 100) % 10)).v,
                read_param(self, self.pc + 2, of_int((cell.v \div 1000) % 10)).v).v>>}

\* shadow with the writes ws (a set of at most one <<address, value>>) on top.
Overlay(sh, ws) ==
    [x \in (DOMAIN sh) \cup {w[1] : w \in ws} |->
        IF \E w \in ws : w[1] = x
        THEN (CHOOSE w \in ws : w[1] = x)[2]
        ELSE sh[x]]

(***************************************************************************)
(* Bounds and the program images the runs are drawn from.                  *)
(***************************************************************************)
\* Longest input sequence handed to execute_to_end.
MaxInputs == 2

\* Most top-level calls a caller makes on one machine (Spec).
MaxCalls == 4

\* Most reset calls on one machine (SpecReset).
MaxResets == 1

RECURSIVE SeqsUpTo(_, _)
SeqsUpTo(S, n) ==
    IF n = 0 THEN {<<>>}
    ELSE LET shorter == SeqsUpTo(S, n - 1) IN
         shorter \cup {Append(q, x) : q \in {t \in shorter : Len(t) = n - 1}, x \in S}

InputVals == {7, 8}

InputSeqs == SeqsUpTo(InputVals, MaxInputs)

\* tests::day_2_1 .. day_2_4
Day2Images ==
    { <<1, 9, 10, 3, 2, 3, 11, 0, 99, 30, 40, 50>>,
      <<2, 3, 0, 3, 99>>,
      <<2, 4, 4, 5, 99, 0>>,
      <<1, 1, 1, 4, 99, 5, 6, 0, 99>> }

\* Two positional add/multiply instructions, a halt and three data cells.
ArithImages ==
    Day2Images \cup
    { <<o1, a1, b1, d1, o2, a2, b2, d2, 99, 30, 40, MaxI32>> :
        o1 \in {1, 2}, a1 \in {0, 9}, b1 \in {0, 10, 11}, d1 \in {3, 4, 8, 13},
        o2 \in {1, 2}, a2 \in {3, 9}, b2 \in {0, 11}, d2 \in {0, 12} }

\* Two inputs then two outputs; address 10 is beyond the image.
IoImages ==
    { <<3, 0, 4, 0, 99>> } \cup
    { <<3, a, 3, b, 4, c, 4, d, 99, 0>> :
        a \in {5, 9, 10}, b \in {5, 9, 10}, c \in {0, 9, 10}, d \in {0, 9, 10} }

\* tests::day_5_1 .. day_5_4
Day5CompareImages ==
    { <<3, 9, 8, 9, 10, 9, 4, 9, 99, -1, 8>>,
      <<3, 9, 7, 9, 10, 9, 4, 9, 99, -1, 8>>,
      <<3, 3, 1108, -1, 8, 3, 4, 3, 99>>,
      <<3, 3, 1107, -1, 8, 3, 4, 3, 99>> }

\* One comparison in each pair of source modes, then its result is output.
CompareImages ==
    { <<op + 100 * m1 + 1000 * m2, x, y, 5, 104, 0, 99, 8, -1>> :
        op \in {7, 8}, m1 \in {0, 1}, m2 \in {0, 1},
        x \in {-1, 0, 7, 8}, y \in {-1, 0, 7, 8} }

\* tests::day_5_6
Day5JumpImages ==
    { <<3, 3, 1105, -1, 9, 1101, 0, 0, 12, 4, 12, 99, 1>> }

\* One jump in each pair of source modes; the path taken shows in the output.
JumpImages ==
    { <<op + 100 * m1 + 1000 * m2, x, y, 104, 1, 99, 104, 2, 99, 0, 6>> :
        op \in {5, 6}, m1 \in {0, 1}, m2 \in {0, 1},
        x \in {0, 1, 9, 10}, y \in {-1, 3, 6, 10} }

\* tests::day_9_1
Quine ==
    <<109, 1, 204, -1, 1001, 100, 1, 100, 1008, 100, 16, 101, 1006, 101, 0, 99>>

\* A relative-base adjustment, an add in each pair of source modes, an output.
RelativeImages ==
    { Quine } \cup
    { <<9 + 100 * m9, r, 1 + 100 * m1 + 1000 * m2, x, y, 7, 4 + 100 * m4, 7, 99,
        5, -3>> :
        m9 \in {0, 1, 2}, r \in {1, 9}, m1 \in {0, 1, 2}, m2 \in {0, 1, 2},
        x \in {-1, 9}, y \in {0, 10}, m4 \in {0, 1, 2} }

RunImages ==
    ArithImages \cup IoImages \cup Day5CompareImages \cup CompareImages
        \cup Day5JumpImages \cup JumpImages \cup RelativeImages

\* Programs built and programs reset to, in runs with a reset between them:
\* a relative store far beyond the image, relative and far position reads,
\* and the input/output example.
ResetImages ==
    { <<109, 5, 21101, 4, 4, 1000, 204, 1000, 99>>,
      <<204, 0, 99>>,
      <<4, 1005, 99>>,
      <<3, 0, 4, 0, 99>> }

\* Programs a caller steps and pokes by hand.
ApiImages ==
    { <<1101, 2, 3, 7, 4, 7, 99>>,
      <<3, 1, 1001, 1, 10, 3, 4, 3, 99>>,
      <<109, 5, 21101, 4, 4, 1000, 204, 1000, 99>>,
      <<1, 0, 0, 0, 99>> }

\* The addresses and values of a caller's set_mem_elt calls: inside the
\* image, just beyond it, and far beyond it.
WriteAddrs == {0, 3, 7, 1000000}

WriteVals == {-5, 99}

\* Programs with an input instruction are run with every input sequence
\* (and the inputs of the tests); the others with none.
InputImages == IoImages \cup Day5CompareImages \cup Day5JumpImages

\* Programs of two inputs x (cell 20) and y (cell 21): one operation on
\* them, one more on its result, and the result written out.
TwoInputImages ==
    { <<3, 20, 3, 21, op1, 20, 21, 22, op2, 22, c, 23, 4, 23, 99>> :
        op1 \in {1, 2, 7, 8}, op2 \in {1001, 1002, 1007, 1008}, c \in {-1, 0, 2} }
    \cup
    { <<3, 20, 3, 21, op1, 20, 21, 22, op2, 22, 20, 23, 4, 23, 99>> :
        op1 \in {1, 2, 7, 8}, op2 \in {1, 2, 7, 8} }

\* 0 < |x|, with |x| built as (0 < x) * x + ((0 < x) * -1 + 1) * -1 * x.
AbsImage ==
    <<3, 50, 107, 0, 50, 51, 2, 51, 50, 52, 1002, 51, -1, 53, 1001, 53, 1, 54,
      1002, 54, -1, 55, 2, 55, 50, 56, 1, 52, 56, 57, 107, 0, 57, 58, 4, 58, 99>>

\* A jump on the input, and a jump on a literal.
JumpOnInputImages ==
    { <<3, 20, 1005, 20, 9, 104, 0, 99, 0, 104, 1, 99>>,
      <<3, 20, 1105, 1, 9, 104, 0, 99, 0, 4, 20, 99>> }

SymImages == TwoInputImages \cup {AbsImage} \cup JumpOnInputImages

\* The values a lookup gives a variable.
Values == {0, 2}

\* The inputs of the run of a SymImages program: a value of Values each over
\* i32, the free variables x and y over the symbolic domain.
SymInputs ==
    IF num = "ast" THEN { <<Variable("x"), Variable("y")>> }
    ELSE { <<a, b>> : a \in Values, b \in Values }

InputsFor(image) ==
    IF num = "i32" /\ image \in InputImages THEN InputSeqs \cup {<<42>>, <<0>>}
    ELSE IF num = "ast" \/ (num = "i32" /\ image \in SymImages) THEN SymInputs
    ELSE {<<>>}

\* Mutant of next: an exhausted iterator yields zero for ever.
next_or_zero(iter) ==
    IF iter = <<>> THEN [item |-> Some(0), rest |-> <<>>]
    ELSE [item |-> Some(Head(iter)), rest |-> Tail(iter)]

\* Iterator::next on the caller's input sequence.
next(iter) ==
    IF iter = <<>> THEN [item |-> None, rest |-> <<>>]
    ELSE [item |-> Some(Head(iter)), rest |-> Tail(iter)]

\* Mutant of push: the new element goes in front.
push_front(vec, x) == <<x>> \o vec

\* Vec::push
push(vec, x) == Append(vec, x)

\* Mutant of returns: an Output outcome goes round the loop too.
returns_not_on_output(res) == res.kind \notin {"Stepped", "Output"}

\* execute_until_input's match: Stepped goes round the loop again; an I/O
\* outcome, and an error through `?`, return.
returns(res) == res.kind # "Stepped"

(***************************************************************************)
(* Init: a machine freshly built by new_with_memory(image).                *)
(***************************************************************************)
\* The machine new_with_memory(image0) builds, no call made yet.
\* No symbolic run.
InitNoAst ==
    /\ ast = Zero
    /\ conds = new
    /\ simplified = NoAst
    /\ resimplified = NoAst
    /\ lookup = <<>>
    /\ evaluated = <<>>

InitMachine ==
    /\ memory = new_with_memory(image0).memory
    /\ sparse_memory = new_with_memory(image0).sparse_memory
    /\ pc = new_with_memory(image0).pc
    /\ relative_base = new_with_memory(image0).relative_base
    /\ stack = <<>>
    /\ get_input = <<>>
    /\ outputs = <<>>
    /\ eui_ret = NoRes
    /\ ret = NoRet
    /\ inputs0 = <<>>
    /\ prev = new_with_memory(image0)
    /\ last = NoRes
    /\ requests = <<>>
    /\ emitted = <<>>
    /\ fed = <<>>
    /\ eui_start = new_with_memory(image0)
    /\ eui_trace = <<>>
    /\ shadow = EmptyMap
    /\ resets = 0
    /\ calls = 0

\* No function applied on its own.
InitNoArgs ==
    /\ args = <<>>
    /\ results = <<>>

\* No List made.
InitNoList ==
    /\ nodes = <<>>
    /\ lists = <<>>
    /\ iters = <<>>
    /\ made = <<>>

\* No amplifier chain.
InitNoDay7 ==
    /\ numbers = <<>>
    /\ phase = <<>>
    /\ caller = "None"
    /\ machines = <<>>
    /\ readiness = <<>>
    /\ frame = [at |-> "None"]
    /\ outcome = [kind |-> "None"]
    /\ emitted_by_last = <<>>
    /\ traffic = <<>>

InitOther == InitNoArgs /\ InitNoList /\ InitNoDay7

InitState == InitMachine /\ InitNoAst /\ InitOther

\* A MachineState<i32> built from one of the images, in either build.
InitOf(images) ==
    /\ overflow_checks \in BOOLEAN
    /\ num = "i32"
    /\ image0 \in images
    /\ InitState

\* What one one_step call does to the machine and to the history.
DoOneStep(r) ==
    /\ Becomes(r.self)
    /\ prev' = Self
    /\ last' = r.res
    /\ requests' = IF r.res.kind = "AwaitingInput"
                   THEN Append(requests, r.res.a) ELSE requests
    /\ emitted' = IF r.res.kind = "Output"
                  THEN Append(emitted, r.res.a) ELSE emitted
    /\ shadow' = Overlay(shadow, stored(Self))

(***************************************************************************)
(* execute_until_input: one iteration of its loop.  The call returns to    *)
(* execute_to_end (eui_ret) or to the top-level caller (ret).              *)
(***************************************************************************)
\* The body of the loop of execute_until_input, r being what one_step gave.
ExecuteUntilInputStep(r) ==
    /\ DoOneStep(r)
    /\ eui_trace' = Append(eui_trace, r.res)
    /\ CASE ~returns(r.res) ->
             UNCHANGED <<stack, eui_ret, ret>>
         [] r.res.kind = "Panic" ->
             /\ stack' = <<"panicked">>
             /\ ret' = Ret(r.res, <<>>)
             /\ UNCHANGED eui_ret
         [] OTHER ->
             /\ stack' = Pop
             /\ IF Len(stack) > 1
                THEN eui_ret' = r.res /\ UNCHANGED ret
                ELSE ret' = Ret(r.res, <<>>) /\ UNCHANGED eui_ret

ExecuteUntilInputLoop ==
    /\ Top = "execute_until_input"
    /\ ExecuteUntilInputStep(one_step(Self))
    /\ UNCHANGED <<overflow_checks, num, other_vars, ast_vars, get_input, outputs, image0, inputs0, fed,
                   eui_start, resets, calls>>

\* A caller calls execute_until_input on an idle machine.
ExecuteUntilInputCall ==
    /\ stack = <<>>
    /\ calls < MaxCalls
    /\ calls' = calls + 1
    /\ stack' = <<"execute_until_input">>
    /\ eui_start' = Self
    /\ eui_trace' = <<>>
    /\ ret' = NoRet
    /\ UNCHANGED <<overflow_checks, num, other_vars, ast_vars, machine_vars, get_input, outputs, eui_ret,
                   image0, inputs0, prev, last, requests, emitted, fed, shadow,
                   resets>>

(***************************************************************************)
(* execute_to_end(get_input).                                              *)
(***************************************************************************)
ExecuteToEndCall ==
    /\ stack = <<>>
    /\ ret.kind = "None"
    /\ \E inputs \in InputsFor(image0) :
        /\ inputs0' = inputs
        /\ get_input' = inputs
    /\ outputs' = <<>>
    /\ stack' = <<"execute_to_end">>
    /\ requests' = <<>>
    /\ emitted' = <<>>
    /\ fed' = <<>>
    /\ UNCHANGED <<overflow_checks, num, other_vars, ast_vars, machine_vars, eui_ret, ret, image0, prev,
                   last, eui_start, eui_trace, shadow, resets, calls>>

\* Loop head: call execute_until_input.
ExecuteToEndLoop ==
    /\ Top = "execute_to_end"
    /\ eui_ret.kind = "None"
    /\ stack' = Append(stack, "execute_until_input")
    /\ eui_start' = Self
    /\ eui_trace' = <<>>
    /\ UNCHANGED <<overflow_checks, num, other_vars, ast_vars, machine_vars, get_input, outputs, eui_ret,
                   ret, image0, inputs0, prev, last, requests, emitted, fed,
                   shadow, resets, calls>>

\* The match on what execute_until_input returned (`?` passes an error on).
ExecuteToEndMatch ==
    /\ Top = "execute_to_end"
    /\ eui_ret.kind # "None"
    /\ eui_ret' = NoRes
    /\ CASE eui_ret.kind = "Terminated" ->
                /\ ret' = Ret(Res("Ok", 0, 0), outputs)
                /\ stack' = Pop
                /\ UNCHANGED <<machine_vars, get_input, outputs, fed, shadow>>
         [] eui_ret.kind = "Output" ->
                /\ outputs' = push(outputs, eui_ret.a)
                /\ UNCHANGED <<machine_vars, get_input, stack, ret, fed, shadow>>
         [] eui_ret.kind = "AwaitingInput" ->
                LET input == next(get_input) IN
                /\ get_input' = input.rest
                /\ IF ~input.item.some
                   THEN /\ ret' = Ret(Res("NoInput", 0, 0), <<>>)
                        /\ stack' = Pop
                        /\ UNCHANGED <<machine_vars, outputs, fed, shadow>>
                   ELSE /\ Becomes(set_mem_elt(Self, eui_ret.a, input.item.v))
                        /\ fed' = Append(fed, <<eui_ret.a, input.item.v>>)
                        /\ shadow' = Overlay(shadow, {<<eui_ret.a, input.item.v>>})
                        /\ UNCHANGED <<stack, ret, outputs>>
         [] OTHER ->
                /\ ret' = Ret(eui_ret, <<>>)
                /\ stack' = Pop
                /\ UNCHANGED <<machine_vars, get_input, outputs, fed, shadow>>
    /\ UNCHANGED <<overflow_checks, num, other_vars, ast_vars, image0, inputs0, prev, last, requests,
                   emitted, eui_start, eui_trace, resets, calls>>

InitRun == InitOf(RunImages)

NextRun ==
    \/ ExecuteToEndCall
    \/ ExecuteToEndLoop
    \/ ExecuteUntilInputLoop
    \/ ExecuteToEndMatch

\* A machine built from an image and run to its end.
SpecRun == InitRun /\ [][NextRun]_vars

(***************************************************************************)
(* A caller that drives the machine by hand: one_step, set_mem_elt and     *)
(* execute_until_input calls in any order.                                 *)
(***************************************************************************)
\* What a call of one_step by the caller leaves, r being what one_step gave.
OneStepReturn(r) ==
    /\ DoOneStep(r)
    /\ ret' = Ret(r.res, <<>>)
    /\ stack' = IF r.res.kind = "Panic" THEN <<"panicked">> ELSE stack

OneStepCall ==
    /\ stack = <<>>
    /\ calls < MaxCalls
    /\ calls' = calls + 1
    /\ OneStepReturn(one_step(Self))
    /\ UNCHANGED <<overflow_checks, num, other_vars, ast_vars, get_input, outputs, eui_ret, image0,
                   inputs0, fed, eui_start, eui_trace, resets>>

SetMemEltCall ==
    /\ stack = <<>>
    /\ calls < MaxCalls
    /\ calls' = calls + 1
    /\ \E i \in WriteAddrs, new_val \in WriteVals :
        /\ Becomes(set_mem_elt(Self, i, new_val))
        /\ shadow' = Overlay(shadow, {<<i, new_val>>})
    /\ last' = NoRes
    /\ ret' = NoRet
    /\ UNCHANGED <<overflow_checks, num, other_vars, ast_vars, stack, get_input, outputs, eui_ret, image0,
                   inputs0, prev, requests, emitted, fed, eui_start, eui_trace,
                   resets>>

Init == InitOf(ApiImages)

Next ==
    \/ OneStepCall
    \/ SetMemEltCall
    \/ ExecuteUntilInputCall
    \/ ExecuteUntilInputLoop

\* A machine built from an image and stepped and written by its caller.
Spec == Init /\ [][Next]_vars

\* Programs without a halt instruction, whose control flow leaves the image:
\* straight off its end, by a jump, after an input, and through an
\* instruction the program itself wrote beyond its image.
PastImages ==
    { <<1101, 2, 3, 7, 4, 7>>,
      <<1, 0, 0, 0>>,
      <<1105, 1, 7>>,
      <<3, 7, 4, 7>>,
      <<1101, 104, 0, 6, 104, 1>>,
      <<109, 3, 21101, 99, 0, 4, 104, 7>> }

InitPast == InitOf(PastImages)

\* A program that runs past the end of its image, stepped and written by its
\* caller.
SpecPast == InitPast /\ [][Next]_vars

(***************************************************************************)
(* reset(mem) between runs, as day_7's clear_all does for every machine.   *)
(***************************************************************************)
ResetCall ==
    /\ Returned
    /\ resets < MaxResets
    /\ resets' = resets + 1
    /\ \E mem \in ResetImages :
        /\ Becomes(reset(Self, mem))
        /\ image0' = mem
        /\ prev' = reset(Self, mem)
        /\ eui_start' = reset(Self, mem)
    /\ ret' = NoRet
    /\ last' = NoRes
    /\ inputs0' = <<>>
    /\ requests' = <<>>
    /\ emitted' = <<>>
    /\ fed' = <<>>
    /\ eui_trace' = <<>>
    /\ shadow' = EmptyMap
    /\ UNCHANGED <<overflow_checks, num, other_vars, ast_vars, stack, get_input, outputs, eui_ret, calls>>

InitReset == InitOf(ResetImages)

NextReset ==
    \/ ExecuteToEndCall
    \/ ExecuteToEndLoop
    \/ ExecuteUntilInputLoop
    \/ ExecuteToEndMatch
    \/ ResetCall

\* A machine run to its end, reset to an image, and run again.
SpecReset == InitReset /\ [][NextReset]_vars

(***************************************************************************)
(* Programs that fail: every mode digit, valid or not, on every opcode;    *)
(* cells that are no opcode; negative addresses; relative offsets that     *)
(* take relative_base below zero or past the ends of the i32 range.        *)
(***************************************************************************)
\* Opcodes 1, 2, 7, 8 under every digit of each operand (3 is no mode).
DestModeImages ==
    { <<op + 100 * m1 + 1000 * m2 + 10000 * m3, x, 4, 5, 99, 6>> :
        op \in {1, 2, 7, 8}, m1 \in {0, 1, 2, 3}, m2 \in {0, 1},
        m3 \in {0, 1, 2, 3}, x \in {-1, 5} }
    \cup { <<110001, 5, 4, 5, 99, 6>>, <<1, 0, 0, -1, 99>>, <<13001, 5, 4, 5, 99, 6>> }

\* Opcodes 5 and 6 under every digit of each operand, taken and not taken.
JumpModeImages ==
    { <<op + 100 * m1 + 1000 * m2, x, y, 99, 0, 1, 99>> :
        op \in {5, 6}, m1 \in {0, 1, 2, 3}, m2 \in {0, 1, 2, 3},
        x \in {-1, 0, 4, 5}, y \in {-1, 3, 6} }
    \cup { <<10005, 5, 6, 99, 0, 1, 99>>, <<10106, 0, 6, 99, 0, 1, 99>> }

\* Opcodes 3, 4, 9 (one operand) under every digit, and opcode 99.
OneOperandImages ==
    { <<op + 100 * m + 1000 * e, x, 99>> :
        op \in {3, 4, 9}, m \in {0, 1, 2, 3}, e \in {0, 1}, x \in {-1, 2, 5} }
    \cup { <<99>>, <<199>>, <<1099>> }

\* The cell a step decodes, at pc = 0 and at pc = 2.
OpcodeCells ==
    {0, 10, 45, 50, 98, 100, 1200, 11100, 12345, -1, -50, -99, -100, -101, MinI32}

OpcodeImages ==
    { <<c>> : c \in OpcodeCells } \cup { <<109, 0, c>> : c \in OpcodeCells }

\* relative_base set to r, then a relative operand o in each place one can
\* stand: source, destination, input location, jump comparand and target,
\* relative-base increment.
RelativeFaultImages ==
    UNION { { <<109, r, 204, o, 99>>,
              <<109, r, 203, o, 99>>,
              <<109, r, 21101, 1, 1, o, 99>>,
              <<109, r, 1201, o, 1, 7, 99, 0>>,
              <<109, r, 1205, o, 7, 99, 99, 99>>,
              <<109, r, 2105, 1, o, 99, 99>>,
              <<109, r, 209, o, 99>> } :
            r \in {-3, 3, MinI32, MaxI32}, o \in {-4, -1, 1} }

FaultImages ==
    DestModeImages \cup JumpModeImages \cup OneOperandImages
        \cup OpcodeImages \cup RelativeFaultImages

InitFault == InitOf(FaultImages)

\* A machine built from a program that may fail, run by execute_to_end.
SpecFault == InitFault /\ [][NextRun]_vars

(***************************************************************************)
(* Machines over each of the four cell domains.  An image of a 64-bit      *)
(* domain is a sequence of 64-bit values.                                  *)
(***************************************************************************)
Nums == {"i32", "i64", "u64", "usize"}

\* An image whose cells are in the i32 range, as an image of the domain n.
\* An image over the symbolic domain: every cell a Constant.
Ast_image(image) == [i \in DOMAIN image |-> Constant(image[i])]

Lit(n, image) ==
    CASE n = "i32" -> image
      [] n = "ast" -> Ast_image(image)
      [] OTHER -> [i \in DOMAIN image |-> wide(image[i])]

\* 2^31 (i32::MAX + 1), 2^50 (tests::day_9_3), and the sum i32::MIN + -1:
\* as an i64 it is -2^31 - 1, as a u64 it is 2^64 - 2^31 - 1.
TwoTo31 == <<0, 0, 0, 128, 0, 0, 0, 0>>

TwoTo50 == <<0, 0, 0, 0, 0, 0, 4, 0>>

BelowMinI32 == wide_wrapping_add(wide(MinI32), wide(-1))

\* Cell values outside the i32 range.
Bigs == {TwoTo31, TwoTo50, BelowMinI32}

\* tests::day_9_2: two immediate operands multiplied, the product output.
ProductImages ==
    { <<1102, x, y, 7, 4, 7, 99, 0>> :
        x \in {34915192, 46341, 65536, MaxI32}, y \in {34915192, 46341, 3, MaxI32} }

\* Programs of positional opcodes 1, 2 and 99 whose cells are not negative.
WidthImages ==
    Day2Images \cup
    { <<o1, a1, b1, d1, o2, a2, b2, d2, 99, 30, 40, 46340>> :
        o1 \in {1, 2}, a1 \in {0, 9}, b1 \in {10, 11}, d1 \in {3, 8, 13},
        o2 \in {1, 2}, a2 \in {3, 11}, b2 \in {0, 11}, d2 \in {0, 12} }

\* The image with its cell at address at replaced by the value big.
WithCell(image, at, big) == [image EXCEPT ![at + 1] = big]

\* A value outside the i32 range in each place an operand can stand:
\* immediate output (tests::day_9_3), relative source, input location,
\* relative-base increment, relative destination, jump comparand and target.
BigImages ==
    UNION { { WithCell(Lit("i64", <<104, 0, 99>>), 1, big),
              WithCell(Lit("i64", <<204, 0, 99>>), 1, big),
              WithCell(Lit("i64", <<203, 0, 99>>), 1, big),
              WithCell(Lit("i64", <<109, 0, 99>>), 1, big),
              WithCell(Lit("i64", <<9, 3, 99, 0>>), 3, big),
              WithCell(Lit("i64", <<1201, 0, 1, 5, 99, 0>>), 1, big),
              WithCell(Lit("i64", <<2101, 1, 0, 5, 99, 0>>), 2, big),
              WithCell(Lit("i64", <<205, 0, 4, 99, 99>>), 1, big),
              WithCell(Lit("i64", <<2105, 1, 0, 99>>), 2, big),
              WithCell(Lit("i64", <<2106, 0, 0, 99>>), 2, big),
              WithCell(Lit("i64", <<1102, 3, 0, 7, 4, 7, 99, 0>>), 2, big),
              WithCell(Lit("i64", <<2, 5, 6, 7, 99, 2048, 0, 0>>), 6, big) } \cup
            { WithCell(Lit("i64", <<op + 21100, 1, 1, 0, 99>>), 3, big) :
                op \in {1, 2, 7, 8} } :
            big \in Bigs }

\* The images a machine over the domain n is built from.
ImagesOf(n) ==
    { Lit(n, image) : image \in ProductImages \cup WidthImages }
        \cup (IF n = "i32" THEN {} ELSE BigImages)

InitWide ==
    /\ overflow_checks \in BOOLEAN
    /\ num \in Nums
    /\ image0 \in ImagesOf(num)
    /\ InitState

\* A machine over any of the cell domains, run by execute_to_end.
SpecWide == InitWide /\ [][NextRun]_vars

(***************************************************************************)
(* The symbolic side: an expression is simplified under a condition list,  *)
(* simplified again (day_19 part_2 chains simplify), and the expressions   *)
(* are evaluated under a lookup.                                           *)
(***************************************************************************)
Names == {"x", "y"}

\* The lookups: each name has a value or none.
Lookups == UNION { [d -> Values] : d \in SUBSET Names }

Leaves == {Zero, One, Constant(0), Constant(1), Constant(2), Variable("x"), Variable("y")}

FewLeaves == {Zero, One, Constant(2), Variable("x")}

Arith(ls, rs) == { AddNode(l, r) : l \in ls, r \in rs } \cup { MulNode(l, r) : l \in ls, r \in rs }

\* Comparands of the conditionals drawn: leaves, a product and two sums.
Comparands ==
    {Zero, One, Constant(2), Variable("x"), Variable("y"),
     MulNode(Variable("x"), Zero), AddNode(Variable("y"), Variable("x")),
     AddNode(Variable("x"), Variable("y"))}

Conditionals ==
    { IfEqThen(a, b, One, Constant(2)) : a \in Comparands, b \in Comparands } \cup
    { IfLessThen(a, b, One, Constant(2)) : a \in Comparands, b \in Comparands } \cup
    { IfLessThen(a, b, Variable("y"), AddNode(One, Variable("x"))) :
        a \in {Zero, Variable("x")}, b \in {Variable("x"), Variable("y")} }

FewConditionals ==
    {IfLessThen(Variable("x"), Variable("y"), One, Constant(2)),
     IfLessThen(Zero, Variable("x"), Variable("y"), One),
     IfEqThen(Variable("x"), Variable("y"), Zero, Variable("x"))}

\* Conditionals whose branches are conditionals on the same comparands.
Nested ==
    UNION { { IfLessThen(c[1], c[2], t, e), IfEqThen(c[1], c[2], t, e) } :
              c \in {<<Variable("x"), Variable("y")>>, <<Zero, Variable("x")>>},
              t \in FewConditionals, e \in FewConditionals }

Exprs ==
    Leaves \cup Arith(Leaves, Leaves)
        \cup Arith(Arith(FewLeaves, FewLeaves), FewLeaves)
        \cup Arith(FewLeaves, Arith(FewLeaves, FewLeaves))
        \cup Conditionals
        \cup Arith(FewConditionals, FewLeaves \cup FewConditionals)
        \cup Arith(FewLeaves, FewConditionals)
        \cup Nested

\* The condition lists: empty, the one of day_19 part_2 (0 < y prepended
\* first, then 0 < x), and single facts about x and y.
ConditionLists ==
    {new,
     prepend(prepend(new, LessThan(Zero, Variable("y"))), LessThan(Zero, Variable("x"))),
     prepend(new, Equal(Variable("x"), Variable("y"))),
     prepend(new, NotEqual(Variable("x"), Variable("y"))),
     prepend(new, LessThan(Variable("x"), Variable("y"))),
     prepend(new, NotLess(Variable("x"), Variable("y"))),
     prepend(new, LessThan(AddNode(Variable("y"), Variable("x")), Constant(2))),
     prepend(prepend(new, NotEqual(Variable("x"), Variable("y"))),
             Equal(Variable("x"), Variable("y"))),
     prepend(prepend(new, LessThan(Variable("x"), Variable("y"))),
             NotLess(Variable("x"), Variable("y"))),
     prepend(prepend(new, Equal(Variable("x"), Variable("y"))),
             NotLess(Variable("x"), Variable("y"))),
     prepend(new, LessThan(Variable("x"), Variable("x"))),
     prepend(new, LessThan(One, One))}

InitAst ==
    /\ overflow_checks = FALSE
    /\ num = "i32"
    /\ image0 = <<99>>
    /\ InitMachine
    /\ InitOther
    /\ ast \in Exprs
    /\ conds \in ConditionLists
    /\ simplified = NoAst
    /\ resimplified = NoAst
    /\ lookup = <<>>
    /\ evaluated = <<>>

\* output.simplify(&conditions)
Simplify ==
    /\ simplified = NoAst
    /\ simplified' = simplify(ast, conds)
    /\ UNCHANGED <<overflow_checks, num, other_vars, machine_vars, driver_vars, history_vars,
                   ast, conds, resimplified, lookup, evaluated>>

\* .simplify(&conditions) on the result
SimplifyAgain ==
    /\ simplified # NoAst
    /\ resimplified = NoAst
    /\ resimplified' = simplify(simplified, conds)
    /\ UNCHANGED <<overflow_checks, num, other_vars, machine_vars, driver_vars, history_vars,
                   ast, conds, simplified, lookup, evaluated>>

\* eval of the expression and of its simplifications under one lookup
Eval ==
    /\ resimplified # NoAst
    /\ evaluated = <<>>
    /\ \E var \in Lookups :
          /\ lookup' = var
          /\ evaluated' = <<eval(ast, var), eval(simplified, var), eval(resimplified, var)>>
    /\ UNCHANGED <<overflow_checks, num, other_vars, machine_vars, driver_vars, history_vars,
                   ast, conds, simplified, resimplified>>

NextAst ==
    \/ Simplify
    \/ SimplifyAgain
    \/ Eval

SpecAst == InitAst /\ [][NextAst]_vars

(***************************************************************************)
(* SpecSym: a SymImages program run to its end over i32 on concrete inputs *)
(* or over Ast on the free variables x and y; the symbolic run's output is *)
(* simplified under the empty condition list and evaluated at a binding of *)
(* both variables.                                                         *)
(***************************************************************************)
Bindings == [Names -> Values]

InitSym ==
    /\ overflow_checks = FALSE
    /\ num \in {"i32", "ast"}
    /\ image0 \in { Lit(num, image) : image \in SymImages }
    /\ InitState

\* output.simplify(&List::new()) on the last value the symbolic run wrote
SimplifyOutput ==
    /\ num = "ast"
    /\ stack = <<>>
    /\ ret.kind = "Ok"
    /\ ret.out # <<>>
    /\ simplified = NoAst
    /\ ast' = ret.out[Len(ret.out)]
    /\ simplified' = simplify(ret.out[Len(ret.out)], new)
    /\ UNCHANGED <<overflow_checks, num, other_vars, machine_vars, driver_vars, history_vars,
                   conds, resimplified, lookup, evaluated>>

\* eval of the output and of its simplification at one binding
EvalOutput ==
    /\ simplified # NoAst
    /\ evaluated = <<>>
    /\ \E var \in Bindings :
          /\ lookup' = var
          /\ evaluated' = <<eval(ast, var), eval(simplified, var)>>
    /\ UNCHANGED <<overflow_checks, num, other_vars, machine_vars, driver_vars, history_vars,
                   ast, conds, simplified, resimplified>>

NextSym ==
    \/ NextRun
    \/ SimplifyOutput
    \/ EvalOutput

SpecSym == InitSym /\ [][NextSym]_vars

(***************************************************************************)
(* SpecEq: strict_equal applied to the pairs of three expressions, and     *)
(* eval applied to the three under one lookup.                             *)
(***************************************************************************)
EqExprs ==
    {Zero, One, Constant(0), Constant(1), Constant(2), Variable("x"), Variable("y"),
     AddNode(Zero, Variable("x")), AddNode(Constant(0), Variable("x")),
     AddNode(Variable("x"), Zero), AddNode(Variable("x"), Variable("y")),
     MulNode(One, Variable("y")), MulNode(Constant(1), Variable("y")),
     MulNode(Variable("y"), One),
     IfEqThen(Zero, Variable("x"), One, Variable("y")),
     IfEqThen(Constant(0), Variable("x"), Constant(1), Variable("y")),
     IfEqThen(Zero, Variable("x"), One, Variable("x")),
     IfLessThen(Variable("x"), One, Zero, Variable("y")),
     IfLessThen(Variable("x"), Constant(1), Constant(0), Variable("y")),
     IfEqThen(Variable("x"), One, Zero, Variable("y")),
     AddNode(AddNode(Zero, Variable("x")), One),
     AddNode(AddNode(Constant(0), Variable("x")), Constant(1)),
     AddNode(AddNode(Zero, Variable("x")), Constant(1)),
     AddNode(Zero, AddNode(Variable("x"), One))}

\* An Ast machine idle on the image <<99>>, the simplifier idle.
InitIdle ==
    /\ overflow_checks = FALSE
    /\ num = "ast"
    /\ image0 = Ast_image(<<99>>)
    /\ InitMachine
    /\ InitNoAst

InitEq ==
    /\ InitIdle
    /\ InitNoList
    /\ InitNoDay7
    /\ args \in EqExprs \X EqExprs \X EqExprs
    /\ results = <<>>

\* a.strict_equal(&b) for the pairs of the three operands
StrictEqual ==
    /\ Len(args) = 3
    /\ results = <<>>
    /\ results' = << [i \in 1 .. 3 |-> [j \in 1 .. 3 |-> strict_equal(args[i], args[j])]] >>
    /\ UNCHANGED <<overflow_checks, num, machine_vars, driver_vars, history_vars,
                   ast_vars, day7_vars, list_vars, args>>

\* eval of the three operands under one lookup
EvalOperands ==
    /\ Len(args) = 3
    /\ Len(results) = 1
    /\ \E var \in Lookups :
          results' = Append(results, [i \in 1 .. 3 |-> eval(args[i], var)])
    /\ UNCHANGED <<overflow_checks, num, machine_vars, driver_vars, history_vars,
                   ast_vars, day7_vars, list_vars, args>>

NextEq ==
    \/ StrictEqual
    \/ EvalOperands

SpecEq == InitEq /\ [][NextEq]_vars

(***************************************************************************)
(* SpecLess: if_less_then_else applied to four expressions, and eval       *)
(* applied to the expression it builds and to the four under one binding   *)
(* of every variable.                                                      *)
(***************************************************************************)
\* |v| as the machine's arithmetic builds it: IfLessThen(0, v, v, -1 * v).
AbsoluteValue(zero_node, v, w) ==
    IfLessThen(zero_node, Variable(v), Variable(v), MulNode(Constant(-1), Variable(w)))

LessLeft == {Zero, Constant(0), One, Constant(2), Variable("x")}

LessRight ==
    {Zero, Constant(2), Variable("y"), AddNode(Variable("x"), One),
     AbsoluteValue(Zero, "x", "x"), AbsoluteValue(Constant(0), "x", "x"),
     AbsoluteValue(Zero, "x", "y")}

LessBranches == {<<One, Zero>>, <<Variable("y"), Constant(2)>>}

LessValues == {-2, 0, 2}

LessBindings == [Names -> LessValues]

InitLess ==
    /\ InitIdle
    /\ InitNoList
    /\ InitNoDay7
    /\ \E a \in LessLeft, b \in LessRight, branches \in LessBranches :
          args = <<a, b, branches[1], branches[2]>>
    /\ results = <<>>

\* a.if_less_then_else(b, t, e)
IfLessThenElse ==
    /\ Len(args) = 4
    /\ results = <<>>
    /\ results' = << if_less_then_else(args[1], args[2], args[3], args[4]) >>
    /\ UNCHANGED <<overflow_checks, num, machine_vars, driver_vars, history_vars,
                   ast_vars, day7_vars, list_vars, args>>

\* eval of the expression built and of the four operands under one binding
EvalBuilt ==
    /\ Len(args) = 4
    /\ Len(results) = 1
    /\ \E var \in LessBindings :
          results' = Append(results, [var |-> var,
                                      built |-> eval(results[1], var),
                                      operands |-> [i \in 1 .. 4 |-> eval(args[i], var)]])
    /\ UNCHANGED <<overflow_checks, num, machine_vars, driver_vars, history_vars,
                   ast_vars, day7_vars, list_vars, args>>

NextLess ==
    \/ IfLessThenElse
    \/ EvalBuilt

SpecLess == InitLess /\ [][NextLess]_vars

(***************************************************************************)
(* SpecCmp: `==` and `<` applied to two expressions.                       *)
(***************************************************************************)
CmpExprs ==
    Leaves \cup FewConditionals \cup
    {AddNode(One, Constant(2)), MulNode(Constant(2), Constant(2)),
     AddNode(Variable("x"), One), MulNode(Zero, Variable("y")),
     IfEqThen(Zero, Constant(0), Constant(2), Variable("x")),
     IfLessThen(One, Zero, Variable("y"), Constant(2)),
     IfEqThen(Variable("x"), Zero, One, Constant(2)),
     IfLessThen(Zero, Variable("x"), One, Constant(2)),
     AddNode(One, IfEqThen(Variable("x"), Variable("x"), One, Zero))}

InitCmp ==
    /\ InitIdle
    /\ InitNoList
    /\ InitNoDay7
    /\ args \in CmpExprs \X CmpExprs
    /\ results = <<>>

\* What a == b and a < b do: abort, or return
compare(self, other) ==
    IF Ast_panics(self, other) THEN [panic |-> TRUE, eq |-> FALSE, lt |-> FALSE]
    ELSE [panic |-> FALSE, eq |-> Ast_eq(self, other), lt |-> Ast_lt(self, other)]

\* a == b and a < b on the two operands
Compare ==
    /\ Len(args) = 2
    /\ results = <<>>
    /\ results' = <<compare(args[1], args[2])>>
    /\ UNCHANGED <<overflow_checks, num, machine_vars, driver_vars, history_vars,
                   ast_vars, day7_vars, list_vars, args>>

SpecCmp == InitCmp /\ [][Compare]_vars

(***************************************************************************)
(* SpecConv: (num.to_usize)(x) and (num.to_i32)(x) applied to one value of *)
(* each cell domain.                                                       *)
(***************************************************************************)
SmallValues == {MinI32, MinI32 + 1, -2, -1, 0, 1, 2, 64, MaxI32 - 1, MaxI32}

\* i64::MIN, which as a u64 is 2^63, and u32::MAX
WideMin == <<0, 0, 0, 0, 0, 0, 0, 128>>

MaxU32 == <<255, 255, 255, 255, 0, 0, 0, 0>>

ConvExprs ==
    CmpExprs \cup
    {Constant(-1), Constant(MinI32), Constant(MaxI32), AddNode(One, Constant(-2)),
     MulNode(Constant(-1), Constant(2)),
     IfLessThen(Constant(-1), Zero, Constant(-2), Variable("x"))}

ConvValues(n) ==
    CASE n = "i32" -> SmallValues
      [] n = "ast" -> ConvExprs
      [] OTHER -> {wide(k) : k \in SmallValues} \cup Bigs \cup {WideMin, MaxU32}

InitConv ==
    /\ overflow_checks = FALSE
    /\ num \in Nums \cup {"ast"}
    /\ image0 = Lit(num, <<99>>)
    /\ InitMachine
    /\ InitNoAst
    /\ InitNoList
    /\ InitNoDay7
    /\ args \in {<<x>> : x \in ConvValues(num)}
    /\ results = <<>>

Applied(f) == \E i \in DOMAIN results : results[i].f = f

\* (num.to_usize)(x)
ToUsize ==
    /\ Len(args) = 1
    /\ ~Applied("to_usize")
    /\ results' = Append(results, [f |-> "to_usize", r |-> to_usize(args[1])])
    /\ UNCHANGED <<overflow_checks, num, machine_vars, driver_vars, history_vars,
                   ast_vars, day7_vars, list_vars, args>>

\* (num.to_i32)(x)
ToI32 ==
    /\ Len(args) = 1
    /\ ~Applied("to_i32")
    /\ results' = Append(results, [f |-> "to_i32", r |-> to_i32(args[1])])
    /\ UNCHANGED <<overflow_checks, num, machine_vars, driver_vars, history_vars,
                   ast_vars, day7_vars, list_vars, args>>

NextConv == ToUsize \/ ToI32

SpecConv == InitConv /\ [][NextConv]_vars

(***************************************************************************)
(* SpecDay7 (src/day_7/src/lib.rs): part_1 and part_2 chain N machines     *)
(* that run one program; execute schedules them round-robin.  One          *)
(* iteration of the callers' loop over the phase permutations is followed: *)
(* initialise, the calls of execute, clear_all.                            *)
(***************************************************************************)
\* [MachineState<_>; 5]
N == 5

\* The steps a machine is followed for between two of its returns.
MaxSteps == 12

\* MachineState::execute_until_input as a function of the machine: the
\* machine it leaves and what it returned.
RECURSIVE execute_until_input(_, _)
until_io(r, fuel) ==
    IF r.res.kind = "Stepped" /\ fuel > 0
    THEN execute_until_input(r.self, fuel - 1)
    ELSE r

execute_until_input(self, fuel) == until_io(one_step(self), fuel)

\* enum ExecutionState<T>
ExecutionState(kind, a) == [kind |-> kind, a |-> a]

Ready == ExecutionState("Ready", 0)

OutputPending(val) == ExecutionState("OutputPending", val)

\* Whatever the machine reported, it stays Ready.
readiness_of_always_ready(res) == Ready

\* A machine that emitted stays Ready.
readiness_of_output_dropped(res) ==
    CASE res.kind = "Terminated" -> ExecutionState("Terminated", 0)
      [] res.kind = "Output" -> Ready
      [] OTHER -> ExecutionState("AwaitingInput", res.a)

\* What a returned StepIoResult makes of a Ready entry.
readiness_of(res) ==
    CASE res.kind = "Terminated" -> ExecutionState("Terminated", 0)
      [] res.kind = "Output" -> OutputPending(res.a)
      [] OTHER -> ExecutionState("AwaitingInput", res.a)

IsIo(res) == res.kind \in {"Terminated", "Output", "AwaitingInput"}

\* tests::test_part_1 (the first program) and tests::test_part_2 (the first)
Part1Test == <<3, 15, 3, 16, 1002, 16, 10, 16, 1, 16, 15, 15, 4, 15, 99, 0, 0>>

Part2Test ==
    <<3, 26, 1001, 26, -4, 26, 3, 27, 1002, 27, 2, 27, 1, 27, 26, 27, 4, 27,
      1001, 28, -1, 28, 1005, 28, 6, 99, 0, 0, 5>>

\* Programs that: ask for a third input; emit before asking for the signal;
\* halt after the phase; halt at once; hold a bad opcode; halt when the
\* phase is 0 or 5 and pass the signal on otherwise; the same for phase 0
\* alone; emit twice per signal.
Day7Programs ==
    {Part1Test, Part2Test,
     <<3, 9, 3, 10, 3, 11, 4, 10, 99, 0, 0, 0>>,
     <<3, 7, 4, 7, 3, 8, 99, 0, 0>>,
     <<3, 3, 99, 0>>,
     <<99>>,
     <<3, 5, 3, 6, 98, 0, 0>>,
     <<3, 30, 1008, 30, 0, 31, 1005, 31, 20, 1008, 30, 5, 31, 1005, 31, 20,
       3, 32, 4, 32, 99>>,
     <<3, 11, 1005, 11, 7, 99, 0, 3, 12, 4, 12, 99, 0>>,
     <<3, 9, 3, 10, 4, 10, 4, 9, 99, 0, 0>>}

PhaseOrders == {<<0, 1, 2, 3, 4>>, <<4, 3, 2, 1, 0>>, <<1, 0, 4, 3, 2>>}

\* (0..=4).permutations(5) for part_1, (5..=9).permutations(5) for part_2
PhasesOf(c) ==
    {[i \in 1 .. N |-> p[i] + (IF c = "part_2" THEN 5 ELSE 0)] : p \in PhaseOrders}

Frame(at, i, consumed, progress, input) ==
    [at |-> at, i |-> i, first_input_consumed |-> consumed,
     progress_made |-> progress, input_to_first |-> input]

\* Nothing emitted, written, reported, returned or resumed.
NoTraffic ==
    [emitted |-> [i \in 1 .. N |-> <<>>],
     written |-> [i \in 1 .. N |-> <<>>],
     reported |-> [i \in 1 .. N |-> "None"],
     returned |-> <<>>,
     resumed |-> [i |-> 0, was |-> "None", entry |-> "None"]]

InitDay7 ==
    /\ overflow_checks = FALSE
    /\ num = "i32"
    /\ image0 = <<99>>
    /\ InitMachine
    /\ InitNoAst
    /\ InitNoArgs
    /\ InitNoList
    /\ numbers \in Day7Programs
    /\ caller \in {"part_1", "part_2"}
    /\ phase \in PhasesOf(caller)
    /\ machines = [i \in 1 .. N |-> new_with_memory(numbers)]
    /\ readiness = <<>>
    /\ frame = Frame("start", 0, FALSE, FALSE, None)
    /\ outcome = [kind |-> "None"]
    /\ emitted_by_last = <<>>
    /\ traffic = NoTraffic

Day7Unchanged ==
    UNCHANGED <<overflow_checks, num, machine_vars, driver_vars, history_vars,
                ast_vars, pure_vars, list_vars, numbers, phase, caller>>

\* The machines initialise leaves and what it returns, runs[i] being what
\* execute_until_input makes of machine i.
InitialiseWith(runs, bad) ==
    /\ machines' =
          [i \in 1 .. N |->
              IF \A j \in bad : i < j
              THEN set_mem_elt(runs[i].self, runs[i].res.a, phase[i])
              ELSE IF \A j \in bad : i <= j THEN runs[i].self
              ELSE machines[i]]
    /\ outcome' =
          IF bad = {} THEN [kind |-> "Ok"]
          ELSE IF \E i \in bad : (\A j \in bad : i <= j) /\ IsIo(runs[i].res)
               THEN [kind |-> "Panic"]
          ELSE [kind |-> "Err"]
    /\ frame' = [frame EXCEPT !.at = IF bad = {} THEN "initialised" ELSE "aborted"]
    /\ traffic' =
          [traffic EXCEPT !.reported =
              [i \in 1 .. N |->
                  IF \A j \in bad : i < j THEN "Written"
                  ELSE IF \A j \in bad : i <= j THEN runs[i].res.kind
                  ELSE "None"]]

Runs == [i \in 1 .. N |-> execute_until_input(machines[i], MaxSteps)]

\* initialise(&phase, &mut machines, &num)
Initialise ==
    /\ frame.at = "start"
    /\ \A i \in 1 .. N : Runs[i].res.kind # "Stepped"
    /\ InitialiseWith(Runs, {i \in 1 .. N : Runs[i].res.kind # "AwaitingInput"})
    /\ UNCHANGED <<readiness, emitted_by_last>>
    /\ Day7Unchanged

\* execute is called: by part_1 once, with None; by part_2 with None and
\* then, while it returns Some(result), with Some(result).
ExecuteCall ==
    /\ \/ frame.at = "initialised"
       \/ frame.at = "returned" /\ caller = "part_2" /\ outcome.v.some
    /\ readiness' = IF frame.at = "initialised" THEN [i \in 1 .. N |-> Ready]
                    ELSE readiness
    /\ frame' = Frame("for", 0, FALSE, FALSE,
                      IF frame.at = "initialised" THEN None ELSE outcome.v)
    /\ outcome' = [kind |-> "None"]
    /\ emitted_by_last' = <<>>
    /\ UNCHANGED <<machines, traffic>>
    /\ Day7Unchanged

\* The last entry is returned once this call's input has been taken.
returns_pending_any_call(i, first_input_consumed) == i = N - 1

returns_pending(i, first_input_consumed) == i = N - 1 /\ first_input_consumed

\* The arm ExecutionState::Ready of the match, r being what
\* machines[i].execute_until_input(num) made of the machine.
ReadyArm(i, r) ==
    /\ r.res.kind # "Stepped"
    /\ machines' = [machines EXCEPT ![i + 1] = r.self]
    /\ IF IsIo(r.res)
       THEN /\ readiness' = [readiness EXCEPT ![i + 1] = readiness_of(r.res)]
            /\ frame' = [frame EXCEPT !.i = i + 1, !.progress_made = TRUE]
            /\ UNCHANGED outcome
       ELSE /\ frame' = [frame EXCEPT !.at = "aborted"]
            /\ outcome' = [kind |-> IF r.res.kind = "Panic" THEN "Panic" ELSE "Err"]
            /\ UNCHANGED readiness
    /\ emitted_by_last' =
          IF i = N - 1 /\ r.res.kind = "Output"
          THEN Append(emitted_by_last, r.res.a) ELSE emitted_by_last
    /\ traffic' =
          [traffic EXCEPT
              !.emitted[i + 1] = IF r.res.kind = "Output" THEN Append(@, r.res.a) ELSE @,
              !.reported[i + 1] = r.res.kind,
              !.resumed = [i |-> i, was |-> traffic.reported[i + 1],
                           entry |-> readiness[i + 1].kind]]

\* The first machine is always given 0.
first_input_always_zero(input_to_first) == 0

\* What the first machine is given: the call's input, or 0 when it has none.
first_input(input_to_first) ==
    IF input_to_first.some THEN input_to_first.v ELSE 0

\* The arm ExecutionState::AwaitingInput(loc) for machine 0.
FirstAwaitingArm(loc) ==
    IF frame.first_input_consumed
    THEN /\ frame' = [frame EXCEPT !.i = 1]
         /\ UNCHANGED <<machines, readiness, outcome, emitted_by_last, traffic>>
    ELSE /\ machines' =
               [machines EXCEPT ![1] =
                   set_mem_elt(machines[1], loc, first_input(frame.input_to_first))]
         /\ readiness' =
               [i \in 1 .. N |->
                   IF i = 1 THEN Ready
                   ELSE IF i = N /\ frame.input_to_first.some THEN Ready
                   ELSE readiness[i]]
         /\ frame' = [frame EXCEPT !.i = 1, !.progress_made = TRUE,
                                   !.first_input_consumed = TRUE]
         /\ traffic' =
               [traffic EXCEPT
                   !.written[1] = Append(@, first_input(frame.input_to_first)),
                   !.reported[1] = "Written"]
         /\ UNCHANGED <<outcome, emitted_by_last>>

\* The arm ExecutionState::AwaitingInput(loc) for a machine i > 0.
AwaitingArm(i, loc) ==
    CASE readiness[i].kind = "OutputPending" ->
            /\ machines' = [machines EXCEPT ![i + 1] =
                               set_mem_elt(machines[i + 1], loc, readiness[i].a)]
            /\ readiness' = [readiness EXCEPT ![i + 1] = Ready, ![i] = Ready]
            /\ frame' = [frame EXCEPT !.i = i + 1, !.progress_made = TRUE]
            /\ traffic' = [traffic EXCEPT !.written[i + 1] = Append(@, readiness[i].a),
                                          !.reported[i + 1] = "Written"]
            /\ UNCHANGED <<outcome, emitted_by_last>>
      [] readiness[i].kind = "Terminated" ->
            /\ frame' = [frame EXCEPT !.at = "aborted"]
            /\ outcome' = [kind |-> "Panic"]
            /\ UNCHANGED <<machines, readiness, emitted_by_last, traffic>>
      [] OTHER ->
            /\ frame' = [frame EXCEPT !.i = i + 1]
            /\ UNCHANGED <<machines, readiness, outcome, emitted_by_last, traffic>>

\* The arm ExecutionState::OutputPending(val).
OutputPendingArm(i, val) ==
    /\ IF returns_pending(i, frame.first_input_consumed)
       THEN /\ frame' = [frame EXCEPT !.at = "returned"]
            /\ outcome' = [kind |-> "Ok", v |-> Some(val)]
            /\ traffic' = [traffic EXCEPT !.returned = Append(@, val)]
       ELSE /\ frame' = [frame EXCEPT !.i = i + 1]
            /\ UNCHANGED <<outcome, traffic>>
    /\ UNCHANGED <<machines, readiness, emitted_by_last>>

\* execute: one pass of the body of `for i in 0..N`.
ExecuteVisit ==
    /\ frame.at = "for"
    /\ frame.i < N
    /\ CASE readiness[frame.i + 1].kind = "Ready" ->
               ReadyArm(frame.i, execute_until_input(machines[frame.i + 1], MaxSteps))
         [] readiness[frame.i + 1].kind = "AwaitingInput" ->
               IF frame.i = 0 THEN FirstAwaitingArm(readiness[1].a)
               ELSE AwaitingArm(frame.i, readiness[frame.i + 1].a)
         [] readiness[frame.i + 1].kind = "OutputPending" ->
               OutputPendingArm(frame.i, readiness[frame.i + 1].a)
         [] OTHER ->
               /\ frame' = [frame EXCEPT !.i = frame.i + 1]
               /\ UNCHANGED <<machines, readiness, outcome, emitted_by_last, traffic>>
    /\ Day7Unchanged

\* execute: the end of the for loop; `if !progress_made { return Ok(None) }`,
\* or the next round of `loop`.
ExecuteRoundEnd ==
    /\ frame.at = "for"
    /\ frame.i = N
    /\ IF frame.progress_made
       THEN /\ frame' = [frame EXCEPT !.i = 0, !.progress_made = FALSE]
            /\ UNCHANGED outcome
       ELSE /\ frame' = [frame EXCEPT !.at = "returned"]
            /\ outcome' = [kind |-> "Ok", v |-> None]
    /\ UNCHANGED <<machines, readiness, emitted_by_last, traffic>>
    /\ Day7Unchanged

\* The caller takes the last result: part_1 unwraps it, part_2 has left its
\* while loop with input_to_first; the value, if any, is compared with best;
\* then clear_all(&mut machines, numbers).
ClearAll ==
    /\ frame.at = "returned"
    /\ caller = "part_1" \/ ~outcome.v.some
    /\ IF caller = "part_1" /\ ~outcome.v.some
       THEN /\ frame' = [frame EXCEPT !.at = "aborted"]
            /\ outcome' = [kind |-> "Panic"]
            /\ UNCHANGED machines
       ELSE /\ frame' = [frame EXCEPT !.at = "cleared"]
            /\ machines' = [i \in 1 .. N |-> reset(machines[i], numbers)]
            /\ outcome' = [kind |-> "Result",
                           v |-> IF caller = "part_1" THEN outcome.v
                                 ELSE frame.input_to_first]
    /\ UNCHANGED <<readiness, emitted_by_last, traffic>>
    /\ Day7Unchanged

NextDay7 == Initialise \/ ExecuteCall \/ ExecuteVisit \/ ExecuteRoundEnd \/ ClearAll

SpecDay7 == InitDay7 /\ [][NextDay7]_vars

(***************************************************************************)
(* SpecPush: simplify on sums and products of a conditional and a          *)
(* constant, under the condition lists of SpecAst.                         *)
(***************************************************************************)
PushConditionals ==
    {IfLessThen(Variable("x"), Variable("y"), One, Constant(2)),
     IfLessThen(Zero, Variable("x"), Variable("y"), One),
     IfLessThen(Variable("x"), Variable("y"),
                AddNode(Variable("x"), Variable("y")), Constant(2)),
     IfLessThen(AddNode(Variable("x"), Variable("y")), Constant(2), One, Variable("x")),
     IfLessThen(Variable("x"), Variable("y"),
                IfLessThen(Zero, Variable("x"), One, Constant(2)), Variable("y")),
     IfEqThen(Variable("x"), Variable("y"), Zero, Variable("x")),
     IfEqThen(Variable("x"), Zero, One, Constant(2))}

PushConstants == {Constant(0), Constant(1), Constant(2), Constant(-1)}

PushExprs ==
    Arith(PushConditionals, PushConstants) \cup Arith(PushConstants, PushConditionals)

InitPush ==
    /\ overflow_checks = FALSE
    /\ num = "i32"
    /\ image0 = <<99>>
    /\ InitMachine
    /\ InitOther
    /\ ast \in PushExprs
    /\ conds \in ConditionLists
    /\ simplified = NoAst
    /\ resimplified = NoAst
    /\ lookup = <<>>
    /\ evaluated = <<>>

SpecPush == InitPush /\ [][NextAst]_vars

(***************************************************************************)
(* SpecRewrite: simplify, twice, on every sum and product up to two levels *)
(* deep over constants, variables and a conditional: the expressions that  *)
(* the rules re-invoking simplify on a node they have built apply to.      *)
(***************************************************************************)
RewriteLeaves ==
    {Constant(2), Constant(-1), One, Variable("x"), Variable("y"),
     IfLessThen(Variable("x"), Variable("y"), One, Constant(2))}

RewriteOperands == RewriteLeaves \cup Arith(RewriteLeaves, RewriteLeaves)

RewriteExprs == Arith(RewriteOperands, RewriteOperands)

RewriteConditions ==
    {new,
     prepend(new, LessThan(Variable("x"), Variable("y"))),
     prepend(new, NotLess(Variable("x"), Variable("y")))}

InitRewrite ==
    /\ overflow_checks = FALSE
    /\ num = "i32"
    /\ image0 = <<99>>
    /\ InitMachine
    /\ InitOther
    /\ ast \in RewriteExprs
    /\ conds \in RewriteConditions
    /\ simplified = NoAst
    /\ resimplified = NoAst
    /\ lookup = <<>>
    /\ evaluated = <<>>

NextRewrite ==
    \/ Simplify
    \/ SimplifyAgain

SpecRewrite == InitRewrite /\ [][NextRewrite]_vars

(***************************************************************************)
(* SpecList: lists made by prepend from List::new() and from one another,  *)
(* and iterators over them advanced one next at a time.                    *)
(***************************************************************************)
\* Most nodes allocated.
MaxNodes == 3

\* The elements prepended.
Elems == {"c", "d"}

\* The iterators a caller holds at once.
IterSlots == {1, 2}

InitList ==
    /\ InitIdle
    /\ InitNoArgs
    /\ InitNoDay7
    /\ nodes = <<>>
    /\ lists = <<List_new>>
    /\ iters = <<>>
    /\ made = <<[from |-> 0, elem |-> "", was |-> <<>>]>>

RECURSIVE collect(_, _)
\* The items next returns on an iterator until it returns None.
collect(heap, it) ==
    IF ~Iter_next(heap, it).item.some THEN <<>>
    ELSE <<Iter_next(heap, it).item.v>> \o collect(heap, Iter_next(heap, it).iter)

\* list.prepend(elem) on one of the lists made so far
ListPrepend ==
    /\ Len(nodes) < MaxNodes
    /\ \E l \in 1 .. Len(lists), elem \in Elems :
          /\ nodes' = List_prepend(nodes, lists[l], elem).nodes
          /\ lists' = Append(lists, List_prepend(nodes, lists[l], elem).list)
          /\ made' = Append(made, [from |-> l, elem |-> elem,
                                   was |-> collect(nodes, List_iter(lists[l]))])
    /\ UNCHANGED <<overflow_checks, num, machine_vars, driver_vars, history_vars,
                   ast_vars, day7_vars, pure_vars, iters>>

\* list.iter() on one of the lists made so far
ListIter ==
    /\ Len(iters) + 1 \in IterSlots
    /\ \E l \in 1 .. Len(lists) :
          iters' = Append(iters, [iter |-> List_iter(lists[l]), list |-> l,
                                  yielded |-> <<>>, ended |-> FALSE])
    /\ UNCHANGED <<overflow_checks, num, machine_vars, driver_vars, history_vars,
                   ast_vars, day7_vars, pure_vars, nodes, lists, made>>

\* iter.next() on one of the iterators
IterNext ==
    /\ \E k \in 1 .. Len(iters) :
          /\ ~iters[k].ended
          /\ iters' = [iters EXCEPT
                ![k].iter = Iter_next(nodes, iters[k].iter).iter,
                ![k].yielded =
                    IF Iter_next(nodes, iters[k].iter).item.some
                    THEN Append(@, Iter_next(nodes, iters[k].iter).item.v) ELSE @,
                ![k].ended = ~Iter_next(nodes, iters[k].iter).item.some]
    /\ UNCHANGED <<overflow_checks, num, machine_vars, driver_vars, history_vars,
                   ast_vars, day7_vars, pure_vars, nodes, lists, made>>

NextList ==
    \/ ListPrepend
    \/ ListIter
    \/ IterNext

SpecList == InitList /\ [][NextList]_vars

(***************************************************************************)
(* Properties.                                                             *)
(***************************************************************************)
\* The image as one flat map from address to cell, for the reference runs.
ImageMap(image) == [i \in 0 .. Len(image) - 1 |-> image[i + 1]]

RefRead(ref, i) == IF i \in DOMAIN ref THEN ref[i] ELSE 0

RefWrite(ref, i, v) == [x \in (DOMAIN ref) \cup {i} |-> IF x = i THEN v ELSE ref[x]]

\* The reference run of a program of positional opcodes 1, 2 and 99 over one
\* flat memory: dest := a + b or a * b, pc advancing by 4, until 99.  ok is
\* FALSE when the program leaves that class (another opcode or mode, a
\* negative address, or an i32 overflow that aborts the build).
RECURSIVE RefArith(_, _)
RefArith(ref, p) ==
    LET op == RefRead(ref, p)
        a == RefRead(ref, p + 1)
        b == RefRead(ref, p + 2)
        d == RefRead(ref, p + 3)
        x == RefRead(ref, a)
        y == RefRead(ref, b)
    IN
    IF op = 99 THEN [ok |-> TRUE, mem |-> ref]
    ELSE IF op \notin {1, 2} \/ a < 0 \/ b < 0 \/ d < 0
    THEN [ok |-> FALSE, mem |-> ref]
    ELSE IF op = 1
    THEN IF overflow_checks /\ add_overflows(x, y) THEN [ok |-> FALSE, mem |-> ref]
         ELSE RefArith(RefWrite(ref, d, wrapping_add(x, y)), p + 4)
    ELSE IF overflow_checks /\ mul_overflows(x, y) THEN [ok |-> FALSE, mem |-> ref]
         ELSE RefArith(RefWrite(ref, d, wrapping_mul(x, y)), p + 4)

Day2_1 == <<1, 9, 10, 3, 2, 3, 11, 0, 99, 30, 40, 50>>

\* C1: a program of positional opcodes 1, 2, 99 run by execute_to_end with no
\* input returns Ok with no output, and its dense memory is what applying the
\* instructions in order gives; the classic example ends as 3500,9,10,70,...
C1_ArithmeticRun ==
    LET ref == RefArith(ImageMap(image0), 0) IN
    /\ (Returned /\ inputs0 = <<>> /\ ref.ok) =>
          /\ ret.kind = "Ok"
          /\ ret.out = <<>>
          /\ Len(dump_memory(Self)) = Len(image0)
          /\ \A i \in 1 .. Len(image0) : dump_memory(Self)[i] = RefRead(ref.mem, i - 1)
    /\ (Returned /\ image0 = Day2_1 /\ inputs0 = <<>>) =>
          /\ ret.kind = "Ok"
          /\ dump_memory(Self) = <<3500, 9, 10, 70, 2, 3, 11, 0, 99, 30, 40, 50>>

\* C1 witness: the classic example has run to its end.
C1_Witness ==
    /\ Returned
    /\ image0 = Day2_1
    /\ inputs0 = <<>>
    /\ ret.kind = "Ok"
    /\ memory[1] = 3500

\* C1: a second case, a self-modifying two-instruction program that wraps.
C1_WitnessFamily ==
    /\ Returned
    /\ image0 \in ArithImages \ Day2Images
    /\ RefArith(ImageMap(image0), 0).ok
    /\ memory # image0
    /\ DOMAIN sparse_memory # {}

\* C2: execute_to_end writes the k-th input at the address of the k-th
\* AwaitingInput request (it is found there right after the write) and
\* returns the outputs in the order the machine emitted them; [3,0,4,0,99]
\* with inputs [42] returns [42].
C2_InputsAndOutputsInOrder ==
    /\ Len(fed) <= Len(requests)
    /\ Len(fed) <= Len(inputs0)
    /\ \A k \in 1 .. Len(fed) : fed[k] = <<requests[k], inputs0[k]>>
    /\ (Top = "execute_to_end" /\ eui_ret = NoRes /\ last.kind = "AwaitingInput")
          => /\ Len(fed) = Len(requests)
             /\ read_mem_elt(Self, requests[Len(fed)]) = inputs0[Len(fed)]
    /\ Top = "execute_to_end" =>
          \/ outputs = emitted
          \/ eui_ret.kind = "Output" /\ Append(outputs, eui_ret.a) = emitted
    /\ (Returned /\ ret.kind = "Ok") =>
          /\ ret.out = emitted
          /\ Len(fed) = Len(requests)
          /\ last = Terminated
    /\ (Returned /\ image0 = <<3, 0, 4, 0, 99>> /\ inputs0 = <<42>>) =>
          /\ ret.kind = "Ok"
          /\ ret.out = <<42>>

\* C2 witness: a run that stored two inputs at two addresses, one of them
\* beyond the image, and returned them as its outputs, latest first.
C2_Witness ==
    /\ Returned
    /\ ret.kind = "Ok"
    /\ inputs0 = <<7, 8>>
    /\ requests = <<9, 10>>
    /\ ret.out = <<8, 7>>

\* C3: the first AwaitingInput request that finds the input sequence used up
\* makes execute_to_end return the NoInput error: no abort, no output list.
C3_NoInputOnFirstStarvedRequest ==
    /\ Len(requests) > Len(inputs0) =>
          /\ Len(requests) = Len(inputs0) + 1
          /\ Len(fed) = Len(inputs0)
          /\ \/ Top = "execute_to_end" /\ eui_ret.kind = "AwaitingInput"
             \/ Returned /\ ret.kind = "NoInput" /\ ret.out = <<>>
    /\ (Returned /\ ret.kind = "NoInput") =>
          /\ Len(requests) = Len(inputs0) + 1
          /\ last.kind = "AwaitingInput"

\* C3 witness: NoInput returned at the second request, after an output-free
\* first input was consumed.
C3_Witness ==
    /\ Returned
    /\ ret.kind = "NoInput"
    /\ Len(inputs0) = 1
    /\ Len(requests) = 2

\* The machine after n calls of one_step from m.
RECURSIVE Iterate(_, _)
Iterate(m, n) == IF n = 0 THEN m ELSE Iterate(one_step(m).self, n - 1)

\* execute_until_input has just returned to execute_to_end.
EuiReturned == Top = "execute_to_end" /\ eui_ret # NoRes

\* C4: execute_until_input returns the outcome of the first one_step that is
\* not Stepped, having made exactly those one_step calls and no more.
C4_UntilInputIsFirstIoOutcome ==
    EuiReturned =>
        LET n == Len(eui_trace) IN
        /\ n >= 1
        /\ eui_ret = eui_trace[n]
        /\ eui_ret.kind # "Stepped"
        /\ \A k \in 1 .. n - 1 : eui_trace[k] = Stepped
        /\ \A k \in 1 .. n : eui_trace[k] = one_step(Iterate(eui_start, k - 1)).res
        /\ Self = Iterate(eui_start, n)

\* C4 witness: a call that stepped four times before its I/O outcome.
C4_Witness ==
    /\ EuiReturned
    /\ Len(eui_trace) = 5
    /\ eui_ret.kind = "Output"

(***************************************************************************)
(* The instruction the latest one_step decoded, read off the machine as it *)
(* was before that step.                                                   *)
(***************************************************************************)
Cell == read_mem_elt(prev, prev.pc)

Opcode == Cell % 100

\* The raw k-th operand and its mode digit (hundreds for 1, thousands for 2).
Raw(k) == read_mem_elt(prev, prev.pc + k)

Digit(k) == IF k = 1 THEN (Cell \div 100) % 10 ELSE (Cell \div 1000) % 10

\* The address a position- or relative-mode operand designates.
Address(k) == IF Digit(k) = 2 THEN prev.relative_base + Raw(k) ELSE Raw(k)

Resolvable(k) == Digit(k) \in {0, 1, 2} /\ (Digit(k) = 1 \/ Address(k) >= 0)

Resolved(k) == IF Digit(k) = 1 THEN Raw(k) ELSE read_mem_elt(prev, Address(k))

\* What opcodes 1, 2, 7, 8 are to store, given the two source values.
Computed(x, y) ==
    CASE Opcode = 1 -> wrapping_add(x, y)
      [] Opcode = 2 -> wrapping_mul(x, y)
      [] Opcode = 7 -> IF x < y THEN 1 ELSE 0
      [] Opcode = 8 -> IF x = y THEN 1 ELSE 0

\* C5: source operands are resolved by their mode digit (position, immediate,
\* relative to relative_base), opcode 9 adds its operand to relative_base,
\* and the relative-addressing example outputs its own sixteen cells.
C5_OperandModes ==
    /\ last.kind = "Output" =>
          /\ Opcode = 4
          /\ Resolvable(1)
          /\ last.a = Resolved(1)
    /\ (last.kind = "Stepped" /\ Opcode = 9) =>
          /\ Resolvable(1)
          /\ relative_base = wrapping_add(prev.relative_base, Resolved(1))
    /\ (last.kind = "Stepped" /\ Opcode \in {1, 2, 7, 8}) =>
          /\ Resolvable(1)
          /\ Resolvable(2)
          /\ read_mem_elt(Self, result_pos(prev, Cell).v)
                = Computed(Resolved(1), Resolved(2))
    /\ (last.kind = "Stepped" /\ Opcode \in {5, 6}) =>
          /\ Resolvable(1)
          /\ (Opcode = 5) = (Resolved(1) # 0) =>
                Resolvable(2) /\ pc = Resolved(2)
    /\ (Returned /\ image0 = Quine) =>
          /\ ret.kind = "Ok"
          /\ ret.out = Quine

\* C5 witness: the relative-addressing example has output its sixteen cells.
C5_Witness ==
    /\ Returned
    /\ image0 = Quine
    /\ ret.kind = "Ok"
    /\ Len(ret.out) = 16

\* C5: a second case, a relative-mode read with a non-zero relative base.
C5_WitnessRelative ==
    /\ last.kind = "Stepped"
    /\ Opcode = 1
    /\ Digit(1) = 2
    /\ Digit(2) = 0
    /\ prev.relative_base = 5
    /\ Resolved(1) # Raw(1)
    /\ Resolved(1) # read_mem_elt(prev, Raw(1))

\* The cell at pc is opcode op with source mode digits among position and
\* immediate (a position-mode destination for the three-operand opcodes).
PositionOrImmediate(ops) ==
    /\ last.kind # "None"
    /\ Opcode \in ops
    /\ Cell \in {Opcode + 100 * m1 + 1000 * m2 : m1 \in {0, 1}, m2 \in {0, 1}}

\* tests::day_5_1 .. day_5_4: the output expected for the first input.
Day5CompareExpected(image, input) ==
    CASE image = <<3, 9, 8, 9, 10, 9, 4, 9, 99, -1, 8>> -> IF input = 8 THEN 1 ELSE 0
      [] image = <<3, 9, 7, 9, 10, 9, 4, 9, 99, -1, 8>> -> IF input < 8 THEN 1 ELSE 0
      [] image = <<3, 3, 1108, -1, 8, 3, 4, 3, 99>> -> IF input = 8 THEN 1 ELSE 0
      [] image = <<3, 3, 1107, -1, 8, 3, 4, 3, 99>> -> IF input < 8 THEN 1 ELSE 0

\* C6: opcode 7 stores one when its first operand is strictly less than its
\* second and zero otherwise, opcode 8 stores one when they are equal and zero
\* otherwise, in every pair of position and immediate modes, and pc advances
\* by 4.
C6_LessThanAndEquals ==
    /\ (PositionOrImmediate({7, 8}) /\ Resolvable(1) /\ Resolvable(2) /\ Raw(3) >= 0) =>
          /\ last = Stepped
          /\ pc = prev.pc + 4
          /\ Opcode = 7 =>
                read_mem_elt(Self, Raw(3)) = IF Resolved(1) < Resolved(2) THEN 1 ELSE 0
          /\ Opcode = 8 =>
                read_mem_elt(Self, Raw(3)) = IF Resolved(1) = Resolved(2) THEN 1 ELSE 0
          /\ \A i \in 0 .. Len(memory) - 1 :
                i # Raw(3) => read_mem_elt(Self, i) = read_mem_elt(prev, i)
    /\ (Returned /\ image0 \in Day5CompareImages /\ inputs0 # <<>>) =>
          /\ ret.kind = "Ok"
          /\ ret.out = <<Day5CompareExpected(image0, inputs0[1])>>

\* C6 witness: an opcode 7 with one position and one immediate operand whose
\* values are equal has stored zero.
C6_Witness ==
    /\ PositionOrImmediate({7})
    /\ Digit(1) = 0
    /\ Digit(2) = 1
    /\ last = Stepped
    /\ Resolved(1) = Resolved(2)
    /\ Raw(1) # Raw(2)
    /\ read_mem_elt(Self, Raw(3)) = 0

\* C6: a second case, an opcode 8 on two position operands that are equal.
C6_WitnessEquals ==
    /\ PositionOrImmediate({8})
    /\ Digit(1) = 0
    /\ Digit(2) = 0
    /\ last = Stepped
    /\ Raw(1) # Raw(2)
    /\ read_mem_elt(Self, Raw(3)) = 1

\* Opcode 5 jumps on a non-zero first operand, opcode 6 on a zero one.
JumpTaken == (Opcode = 5) = (Resolved(1) # 0)

\* C7: opcode 5 sets pc to its second operand when its first operand is
\* non-zero, opcode 6 when it is zero; otherwise pc advances by 3; memory and
\* the relative base are left alone.
C7_Jumps ==
    /\ PositionOrImmediate({5, 6}) =>
          /\ memory = prev.memory
          /\ sparse_memory = prev.sparse_memory
          /\ relative_base = prev.relative_base
          /\ (Resolvable(1) /\ JumpTaken /\ Resolvable(2) /\ Resolved(2) >= 0) =>
                last = Stepped /\ pc = Resolved(2)
          /\ (Resolvable(1) /\ ~JumpTaken) =>
                last = Stepped /\ pc = prev.pc + 3
    /\ (Returned /\ image0 \in Day5JumpImages /\ inputs0 # <<>>) =>
          /\ ret.kind = "Ok"
          /\ ret.out = <<IF inputs0[1] = 0 THEN 0 ELSE 1>>

\* C7 witness: an opcode 6 whose position-mode first operand is zero has
\* jumped to its position-mode second operand.
C7_Witness ==
    /\ PositionOrImmediate({6})
    /\ Digit(1) = 0
    /\ Digit(2) = 0
    /\ JumpTaken
    /\ last = Stepped
    /\ pc = Resolved(2)
    /\ pc # prev.pc + 3
    /\ pc # Raw(2)

\* C7: a second case, an opcode 5 that did not jump.
C7_WitnessNotTaken ==
    /\ PositionOrImmediate({5})
    /\ ~JumpTaken
    /\ last = Stepped
    /\ pc = prev.pc + 3
    /\ Resolvable(2)
    /\ Resolved(2) # pc

\* The addresses looked at: the image, the ones ever written, the ones a
\* caller writes, and two that nothing writes.
Probes ==
    (0 .. Len(image0)) \cup DOMAIN shadow \cup DOMAIN sparse_memory
        \cup WriteAddrs \cup {1005, 2000000}

\* C8: read_mem_elt(i) is the value most recently written to i by
\* set_mem_elt or by a step, else the image's cell when i is inside the
\* image, else zero, however far beyond the image i is.
C8_ReadsLatestWrite ==
    \A i \in Probes :
        read_mem_elt(Self, i) =
            IF i \in DOMAIN shadow THEN shadow[i]
            ELSE IF i < Len(image0) THEN image0[i + 1]
            ELSE 0

\* C8 witness: a far address written by the caller and another written by
\* a step both read back, next to a dense cell overwritten by the caller.
C8_Witness ==
    /\ 1000000 \in DOMAIN shadow
    /\ read_mem_elt(Self, 1000000) = -5
    /\ 7 \in DOMAIN shadow
    /\ read_mem_elt(Self, 7) = 5
    /\ last = Stepped
    /\ read_mem_elt(Self, 2000000) = 0

\* C9: the dense region keeps the length of the image: a write at or beyond
\* that length lands in the sparse tier only, and dump_memory yields as many
\* cells as the image has.
C9_DenseLengthFixed ==
    /\ Len(memory) = Len(image0)
    /\ Len(dump_memory(Self)) = Len(image0)
    /\ \A i \in DOMAIN sparse_memory : i >= Len(image0)
    /\ \A i \in DOMAIN shadow :
          IF i >= Len(image0)
          THEN i \in DOMAIN sparse_memory /\ sparse_memory[i] = shadow[i]
          ELSE dump_memory(Self)[i + 1] = shadow[i]

\* C9 witness: writes beyond the image by the caller and by a step.
C9_Witness ==
    /\ Len(memory) = 7
    /\ DOMAIN sparse_memory = {7, 1000000}
    /\ prev.sparse_memory # sparse_memory
    /\ last = Stepped

\* C10: right after reset(image) the machine is the machine new_with_memory
\* builds from image: pc 0, relative base 0, no sparse cell.
C10_ResetIsFresh ==
    (resets > 0 /\ stack = <<>> /\ ret = NoRet) => Self = new_with_memory(image0)

\* C10, the consequence: a program run on a reset machine returns what it
\* returns on a fresh one ([204,0,99] outputs its own first cell).
C10_ResetRunsAsFresh ==
    (Returned /\ image0 = <<204, 0, 99>>) => ret.out = <<204>>

(***************************************************************************)
(* Failing steps.  The instruction is read off prev, the machine as it was *)
(* before the latest one_step.                                             *)
(***************************************************************************)
\* The mode digit of the third (destination) operand.
DestDigit == (Cell \div 10000) % 10

\* Source operand k designates a value: immediate, a non-negative position,
\* or a relative offset whose sum with relative_base is a non-negative i32.
SourceResolves(k) ==
    \/ Digit(k) = 1
    \/ Digit(k) = 0 /\ Raw(k) >= 0
    \/ /\ Digit(k) = 2
       /\ ~add_overflows(prev.relative_base, Raw(k))
       /\ prev.relative_base + Raw(k) >= 0

\* The latest step decoded an opcode 1, 2, 7 or 8 whose destination operand
\* has mode digit 1.
DestImmediate ==
    /\ last.kind # "None"
    /\ Cell >= 0
    /\ Opcode \in {1, 2, 7, 8}
    /\ DestDigit = 1

StepErrors == {"BadOpcode", "BadParameterMode", "Negative", "Overflow"}

\* C12: when one_step returns an error, both memory tiers, pc and the
\* relative base are as they were before the call.
C12_ErrorLeavesMachineUnchanged ==
    last.kind \in StepErrors =>
        /\ memory = prev.memory
        /\ sparse_memory = prev.sparse_memory
        /\ pc = prev.pc
        /\ relative_base = prev.relative_base

\* C12 witness: an opcode 1 at pc = 2 read both source operands and then
\* failed on its relative destination, after an earlier step had moved the
\* relative base.
C12_Witness ==
    /\ last = OutOfBounds("Negative")
    /\ Opcode = 1
    /\ DestDigit = 2
    /\ SourceResolves(1)
    /\ SourceResolves(2)
    /\ prev.pc = 2
    /\ prev.relative_base = -3
    /\ Self = prev

\* The number of operands of the opcode decoded (0 when it has none).
Operands ==
    CASE Opcode \in {1, 2, 7, 8} -> 3
      [] Opcode \in {5, 6} -> 2
      [] Opcode \in {3, 4, 9} -> 1
      [] OTHER -> 0

\* The mode digit of operand k: hundreds, thousands, ten-thousands.
ModeDigit(k) ==
    CASE k = 1 -> (Cell \div 100) % 10
      [] k = 2 -> (Cell \div 1000) % 10
      [] k = 3 -> (Cell \div 10000) % 10

\* The latest step decoded an instruction one of whose operands has a mode
\* digit that is no mode.
HasBadModeDigit ==
    /\ last.kind # "None"
    /\ Cell >= 0
    /\ \E k \in 1 .. Operands : ModeDigit(k) \notin {0, 1, 2}

\* C13: an instruction with a mode digit outside {0,1,2} in the place of one
\* of its operands fails with BadParameterMode whatever its operands are,
\* a jump that is not taken included.
C13_BadModeDigitAlwaysRejected ==
    HasBadModeDigit => last = BadParameterMode(Cell)

\* The remainders that are opcodes.
Opcodes == (1 .. 9) \cup {99}

\* The remainder of the cell mod 100 with the sign of the cell (Rust's %);
\* Cell % 100 is the non-negative one.
TruncatedRemainder ==
    IF Cell >= 0 \/ Cell % 100 = 0 THEN Cell % 100 ELSE (Cell % 100) - 100

\* The latest step decoded a cell whose remainder mod 100 is no opcode,
\* whichever of the two remainders of a negative cell is meant.
NoOpcode ==
    /\ last.kind # "None"
    /\ Cell % 100 \notin Opcodes
    /\ TruncatedRemainder \notin Opcodes

\* C14: a cell at pc whose remainder mod 100 is not one of 1..9 or 99 makes
\* one_step fail with BadOpcode carrying that remainder and pc, for every
\* cell value, negative ones included.
C14_NoOpcodeIsBadOpcode ==
    NoOpcode =>
        /\ last.kind = "BadOpcode"
        /\ last.b = prev.pc
        /\ Cell >= 0 => last.a = Cell % 100

\* C14 restricted to the cells that are not negative.
C14_NonNegativeNoOpcodeIsBadOpcode ==
    (NoOpcode /\ Cell >= 0) => last = BadOpcode(Cell % 100, prev.pc)

\* The instruction decodes: an opcode with operands, no digit beyond its
\* operands, every mode digit a mode, and no immediate destination.
Decodes ==
    /\ last.kind # "None"
    /\ Cell >= 0
    /\ Operands > 0
    /\ Cell < (IF Operands = 3 THEN 100000 ELSE IF Operands = 2 THEN 10000 ELSE 1000)
    /\ \A k \in 1 .. Operands : ModeDigit(k) \in {0, 1, 2}
    /\ Opcode \in {1, 2, 7, 8} => ModeDigit(3) # 1
    /\ Opcode = 3 => ModeDigit(1) # 1

\* relative_base + offset, as integers, is outside the i32 range.
SumLeavesI32(k) == ModeDigit(k) = 2 /\ add_overflows(prev.relative_base, Raw(k))

\* Operand k designates a negative address: a negative position, or a
\* relative offset whose sum with relative_base, as integers, is negative.
NegativeAddress(k) ==
    \/ ModeDigit(k) = 0 /\ Raw(k) < 0
    \/ /\ ModeDigit(k) = 2
       /\ IF add_overflows(prev.relative_base, Raw(k)) THEN Raw(k) < 0
          ELSE prev.relative_base + Raw(k) < 0

OperandOk(k) == ModeDigit(k) = 1 \/ (~NegativeAddress(k) /\ ~SumLeavesI32(k))

\* The value of a source operand that is OperandOk.
Value(k) ==
    IF ModeDigit(k) = 1 THEN Raw(k)
    ELSE read_mem_elt(prev, IF ModeDigit(k) = 2
                            THEN prev.relative_base + Raw(k) ELSE Raw(k))

\* The step gets as far as resolving operand k: the operands before it
\* resolved, and for the target of a jump the jump is taken.
Evaluated(k) ==
    CASE k = 1 -> TRUE
      [] k = 2 -> /\ OperandOk(1)
                  /\ Opcode \in {5, 6} => ((Opcode = 5) = (Value(1) # 0))
      [] k = 3 -> OperandOk(1) /\ OperandOk(2)

\* C15: a relative operand (source or destination) with relative_base +
\* offset < 0, a negative position operand and a negative jump target make
\* the step fail with Negative, nothing being read or written at a
\* wrapped-around address; the sum relative_base + offset never wraps: a sum
\* beyond the i32 range is an error too, not a wrapped address nor an abort.
C15_NegativeAddressIsNegative ==
    Decodes =>
        /\ \A k \in 1 .. Operands :
              /\ (Evaluated(k) /\ NegativeAddress(k)) =>
                    last = OutOfBounds("Negative") /\ Self = prev
              /\ (Evaluated(k) /\ SumLeavesI32(k)) =>
                    last.kind \in StepErrors /\ Self = prev
        /\ (Opcode \in {5, 6} /\ Evaluated(2) /\ OperandOk(2) /\ Value(2) < 0) =>
              last = OutOfBounds("Negative") /\ Self = prev

\* C15 without the sums that leave the i32 range: negative positions, jump
\* targets and in-range relative sums are reported as Negative.
C15_InRangeNegativeAddressIsNegative ==
    Decodes =>
        /\ \A k \in 1 .. Operands :
              (Evaluated(k) /\ NegativeAddress(k) /\ ~SumLeavesI32(k)) =>
                  last = OutOfBounds("Negative") /\ Self = prev
        /\ (Opcode \in {5, 6} /\ Evaluated(2) /\ OperandOk(2) /\ Value(2) < 0) =>
              last = OutOfBounds("Negative") /\ Self = prev

(***************************************************************************)
(* The instruction the latest one_step decoded, over any cell domain.      *)
(***************************************************************************)
\* The value x of the machine's cell domain lies in the i32 range.
InI32(x) == num = "i32" \/ wide_fits_i32(x, num = "i64")

\* The integer such a value stands for.
AsInt(x) == IF num = "i32" THEN x ELSE wide_as_i32(x)

\* The cell at pc and operand k as stored, before the step.
CellT == read_mem_elt(prev, prev.pc)

RawT(k) == read_mem_elt(prev, prev.pc + k)

Instr == AsInt(CellT)

OpcodeT == Instr % 100

OperandsT ==
    CASE OpcodeT \in {1, 2, 7, 8} -> 3
      [] OpcodeT \in {5, 6} -> 2
      [] OpcodeT \in {3, 4, 9} -> 1
      [] OTHER -> 0

ModeT(k) ==
    CASE k = 1 -> (Instr \div 100) % 10
      [] k = 2 -> (Instr \div 1000) % 10
      [] k = 3 -> (Instr \div 10000) % 10

\* The instruction decodes (as Decodes, over any cell domain).
DecodesT ==
    /\ last.kind # "None"
    /\ InI32(CellT)
    /\ Instr >= 0
    /\ OperandsT > 0
    /\ Instr < (IF OperandsT = 3 THEN 100000 ELSE IF OperandsT = 2 THEN 10000 ELSE 1000)
    /\ \A k \in 1 .. OperandsT : ModeT(k) \in {0, 1, 2}
    /\ OpcodeT \in {1, 2, 7, 8} => ModeT(3) # 1
    /\ OpcodeT = 3 => ModeT(1) # 1

\* Operand k is a relative offset and the first operand that can fail: the
\* operands before it are immediate, and a jump's target is looked at only
\* when its immediate comparand takes the jump.
FirstRelativeOffset(k) ==
    /\ DecodesT
    /\ k <= OperandsT
    /\ ModeT(k) = 2
    /\ \A j \in 1 .. (k - 1) : ModeT(j) = 1
    /\ (OpcodeT \in {5, 6} /\ k = 2) => ((OpcodeT = 5) = (RawT(1) # zero))

\* The operand of an opcode 9 in immediate or position mode.
IncrementT ==
    IF ModeT(1) = 1 THEN RawT(1) ELSE read_mem_elt(prev, AsInt(RawT(1)))

\* C16: an operand value outside the signed 32-bit offset range is reported
\* as Overflow wherever it is used as a relative offset: a relative source
\* operand, the relative destination of opcodes 1, 2, 3, 7, 8, and the
\* relative-base increment of opcode 9.
C16_OffsetOutOfRangeIsOverflow ==
    /\ \A k \in 1 .. 3 :
          (FirstRelativeOffset(k) /\ ~InI32(RawT(k))) =>
              last.kind = "Overflow" /\ Self = prev
    /\ (DecodesT /\ OpcodeT = 9 /\ ModeT(1) \in {0, 1} /\ ~InI32(IncrementT)) =>
          last.kind = "Overflow" /\ Self = prev

\* C16 without the destinations of opcodes 1, 2, 7, 8: relative source
\* operands, the input location of opcode 3 and the increment of opcode 9.
C16_SourceOffsetOutOfRangeIsOverflow ==
    /\ \A k \in 1 .. 2 :
          (FirstRelativeOffset(k) /\ ~InI32(RawT(k))) =>
              last.kind = "Overflow" /\ Self = prev
    /\ (DecodesT /\ OpcodeT = 9 /\ ModeT(1) \in {0, 1} /\ ~InI32(IncrementT)) =>
          last.kind = "Overflow" /\ Self = prev

\* The run of a program of positional opcodes 1, 2 and 99 over the integers,
\* on one flat memory.  kind is "Ok" at a 99, "BadOpcode" at a cell that is
\* no opcode, and "Leaves" when the program leaves the class: a mode digit,
\* another opcode, a negative cell, or a value above i32::MAX, which the
\* narrowest of the four domains cannot hold.
RECURSIVE RefExact(_, _)
RefExact(ref, p) ==
    LET op == RefRead(ref, p)
        a == RefRead(ref, p + 1)
        b == RefRead(ref, p + 2)
        d == RefRead(ref, p + 3)
        x == RefRead(ref, a)
        y == RefRead(ref, b)
    IN
    IF op = 99 THEN [kind |-> "Ok", mem |-> ref, a |-> 0, b |-> 0]
    ELSE IF op < 0 \/ op >= 100 THEN [kind |-> "Leaves", mem |-> ref, a |-> 0, b |-> 0]
    ELSE IF op \notin 1 .. 9 THEN [kind |-> "BadOpcode", mem |-> ref, a |-> op, b |-> p]
    ELSE IF op \notin {1, 2} \/ a < 0 \/ b < 0 \/ d < 0 \/ x < 0 \/ y < 0
    THEN [kind |-> "Leaves", mem |-> ref, a |-> 0, b |-> 0]
    ELSE IF op = 1
    THEN IF add_overflows(x, y) THEN [kind |-> "Leaves", mem |-> ref, a |-> 0, b |-> 0]
         ELSE RefExact(RefWrite(ref, d, x + y), p + 4)
    ELSE IF mul_overflows(x, y) THEN [kind |-> "Leaves", mem |-> ref, a |-> 0, b |-> 0]
         ELSE RefExact(RefWrite(ref, d, x * y), p + 4)

\* The image the machine was built from, as integers.
IntImage == [i \in 0 .. Len(image0) - 1 |-> AsInt(image0[i + 1])]

\* The integer v as a cell of the machine's domain.
CellOf(v) == IF num = "i32" THEN v ELSE wide(v)

\* The machine's two tiers hold exactly the integer memory ref.
HoldsMemory(ref) ==
    /\ Len(memory) = Len(image0)
    /\ \A i \in 1 .. Len(memory) : memory[i] = CellOf(RefRead(ref, i - 1))
    /\ DOMAIN sparse_memory = (DOMAIN ref) \ (0 .. Len(image0) - 1)
    /\ \A i \in DOMAIN sparse_memory : sparse_memory[i] = CellOf(ref[i])

InClass == \A i \in 1 .. Len(image0) : InI32(image0[i]) /\ AsInt(image0[i]) >= 0

\* C17: a program of positional opcodes 1, 2, 99 whose values all fit in
\* each width ends, over each of i32, i64, u64 and usize, with the outcome
\* and the memory of its run over the integers: the same in all four.
C17_WidthsAgree ==
    (Returned /\ InClass /\ RefExact(IntImage, 0).kind # "Leaves") =>
        LET ref == RefExact(IntImage, 0) IN
        /\ ret.kind = ref.kind
        /\ ref.kind = "BadOpcode" => ret.a = ref.a /\ ret.b = ref.b
        /\ HoldsMemory(ref.mem)

\* C17 witness: the run over usize of a program that adds 46340 + 46340 and
\* writes beyond its image has ended Ok.
C17_Witness ==
    /\ Returned
    /\ num = "usize"
    /\ InClass
    /\ RefExact(IntImage, 0).kind = "Ok"
    /\ 13 \in DOMAIN sparse_memory
    /\ \E i \in 1 .. Len(memory) : memory[i] = wide(92680)

\* C17: a run that ends on a cell that is no opcode, over u64.
C17_WitnessBadOpcode ==
    /\ Returned
    /\ num = "u64"
    /\ InClass
    /\ RefExact(IntImage, 0).kind = "BadOpcode"
    /\ memory # image0

\* The value of source operand k of the decoded instruction, when its
\* address is not negative, and the address a positional or relative
\* destination operand names.
AddressT(k) ==
    IF ModeT(k) = 2 THEN prev.relative_base + AsInt(RawT(k)) ELSE AsInt(RawT(k))

AddressOkT(k) == ModeT(k) = 1 \/ (InI32(RawT(k)) /\ AddressT(k) >= 0)

ValueT(k) == IF ModeT(k) = 1 THEN RawT(k) ELSE read_mem_elt(prev, AddressT(k))

\* The number of bits of a 64-bit value read as unsigned.
ByteBits(b) == CHOOSE n \in 0 .. 8 : b < 2 ^ n /\ (n = 0 \/ b >= 2 ^ (n - 1))

Bits(x) ==
    IF \A i \in 1 .. 8 : x[i] = 0 THEN 0
    ELSE LET h == CHOOSE i \in 1 .. 8 : x[i] # 0 /\ \A j \in (i + 1) .. 8 : x[j] = 0
         IN 8 * (h - 1) + ByteBits(x[h])

\* Five primes whose product exceeds 2^64: two values below 2^63 with the
\* same residues modulo all five are equal.
Primes == {32749, 32719, 32717, 32713, 32707}

\* The residue of a 64-bit value, read as unsigned, modulo p.
RECURSIVE Residue(_, _, _)
Residue(x, i, p) ==
    IF i > 8 THEN 0 ELSE (x[i] + 256 * Residue(x, i + 1, p)) % p

Day9_2 == <<1102, 34915192, 34915192, 7, 4, 7, 99, 0>>

\* 34915192 * 34915192 = 1219070632396864.
Day9_2Product == <<64, 8, 0, 0, 189, 84, 4, 0>>

\* The latest step multiplied two operands that together have at most 63
\* bits, so that their product is below 2^63 and fits both i64 and u64.
MultipliedT ==
    /\ num \in {"i64", "u64"}
    /\ DecodesT
    /\ OpcodeT = 2
    /\ \A k \in 1 .. 3 : AddressOkT(k)
    /\ Bits(ValueT(1)) + Bits(ValueT(2)) <= 63

\* C18: over the 64-bit domains opcode 2 stores the exact product of its
\* operands when the product fits (it is not truncated to 32 bits), and
\* opcode 4 in immediate mode outputs the literal cell unchanged, also when
\* the literal is outside the 32-bit range; 34915192 * 34915192 is output
\* as 1219070632396864.
C18_WideProductAndLiteral ==
    /\ MultipliedT =>
          /\ last.kind = "Stepped"
          /\ Self.pc = prev.pc + 4
          /\ Bits(read_mem_elt(Self, AddressT(3))) <= 63
          /\ \A p \in Primes :
                Residue(read_mem_elt(Self, AddressT(3)), 1, p) =
                    (Residue(ValueT(1), 1, p) * Residue(ValueT(2), 1, p)) % p
    /\ (num \in {"i64", "u64"} /\ DecodesT /\ OpcodeT = 4 /\ ModeT(1) = 1) =>
          /\ last.kind = "Output"
          /\ last.a = RawT(1)
          /\ Self = [prev EXCEPT !.pc = prev.pc + 2]
    /\ (num \in {"i64", "u64"} /\ Returned /\ image0 = Lit(num, Day9_2)) =>
          /\ ret.kind = "Ok"
          /\ ret.out = <<Day9_2Product>>

\* C18 witness: the product of 34915192 by itself, 16 digits, has been
\* stored over i64.
C18_Witness ==
    /\ MultipliedT
    /\ num = "i64"
    /\ image0 = Lit(num, Day9_2)
    /\ read_mem_elt(Self, 7) = Day9_2Product

\* C18: 2048 * 2^50 = 2^61 has been stored over u64.
C18_WitnessBigOperand ==
    /\ MultipliedT
    /\ num = "u64"
    /\ ValueT(2) = TwoTo50
    /\ read_mem_elt(Self, AddressT(3)) = <<0, 0, 0, 0, 0, 0, 0, 32>>

\* C18: the literal 2^50 has been output (tests::day_9_3).
C18_WitnessLiteral ==
    /\ num = "i64"
    /\ DecodesT
    /\ OpcodeT = 4
    /\ ModeT(1) = 1
    /\ last.kind = "Output"
    /\ last.a = TwoTo50

\* The lookup gives every variable a value.
Total == DOMAIN lookup = Names

\* The condition holds under the lookup: its operands evaluate and compare
\* as the condition says.
Holds(cond) ==
    LET a == eval(cond[2], lookup)
        b == eval(cond[3], lookup)
    IN /\ a.ok
       /\ b.ok
       /\ CASE cond[1] = "LessThan" -> a.v < b.v
            [] cond[1] = "Equal" -> a.v = b.v
            [] cond[1] = "NotEqual" -> a.v # b.v
            [] cond[1] = "NotLess" -> a.v >= b.v

AllHold == \A i \in 1 .. Len(conds) : Holds(conds[i])

Evaluated3 == evaluated # <<>>

\* C19: for every expression, condition list and lookup under which every
\* condition holds, when eval succeeds on the expression and on its
\* simplification the two values are equal.
C19_SimplifyPreservesEval ==
    (Evaluated3 /\ AllHold /\ evaluated[1].ok /\ evaluated[2].ok) =>
        evaluated[1].v = evaluated[2].v

\* C19 for the lookups that give every variable a value.
C19_SimplifyPreservesEvalTotal ==
    (Evaluated3 /\ Total /\ AllHold /\ evaluated[1].ok /\ evaluated[2].ok) =>
        evaluated[1].v = evaluated[2].v

\* C20: simplifying a simplified expression again under the same condition
\* list does not change its value: under every lookup for which eval
\* succeeds on both, simplify(simplify(e, C), C) and simplify(e, C) agree.
C20_SimplifyIdempotent ==
    (Evaluated3 /\ evaluated[2].ok /\ evaluated[3].ok) =>
        evaluated[2].v = evaluated[3].v

\* C20 for the lookups that give every variable a value and under which
\* the conditions hold.
C20_SimplifyIdempotentTotal ==
    (Evaluated3 /\ Total /\ AllHold /\ evaluated[2].ok /\ evaluated[3].ok) =>
        evaluated[2].v = evaluated[3].v

\* The branch of a conditional whose comparands both have values.
Taken(e, var) ==
    IF \/ e[1] = "IfEqThen" /\ eval(e[2], var).v = eval(e[3], var).v
       \/ e[1] = "IfLessThen" /\ eval(e[2], var).v < eval(e[3], var).v
    THEN e[4] ELSE e[5]

\* The first variable without a value that evaluating the expression
\* reaches, in the order eval visits the nodes (left operand, right operand;
\* for a conditional both comparands, then the branch taken), or "None".
RECURSIVE FirstUnbound(_, _)
FirstUnbound(e, var) ==
    CASE e[1] \in {"Constant", "Zero", "One"} -> "None"
      [] e[1] = "Variable" -> IF e[2] \in DOMAIN var THEN "None" ELSE e[2]
      [] e[1] \in {"AddNode", "MulNode"} ->
            IF FirstUnbound(e[2], var) # "None" THEN FirstUnbound(e[2], var)
            ELSE FirstUnbound(e[3], var)
      [] e[1] \in {"IfEqThen", "IfLessThen"} ->
            IF FirstUnbound(e[2], var) # "None" THEN FirstUnbound(e[2], var)
            ELSE IF FirstUnbound(e[3], var) # "None" THEN FirstUnbound(e[3], var)
            ELSE FirstUnbound(Taken(e, var), var)

\* The expression has a variable without a value in a comparand it reaches.
RECURSIVE UnboundComparand(_, _)
UnboundComparand(e, var) ==
    CASE e[1] \in {"Constant", "Zero", "One", "Variable"} -> FALSE
      [] e[1] \in {"AddNode", "MulNode"} ->
            \/ UnboundComparand(e[2], var)
            \/ FirstUnbound(e[2], var) = "None" /\ UnboundComparand(e[3], var)
      [] e[1] \in {"IfEqThen", "IfLessThen"} ->
            \/ FirstUnbound(e[2], var) # "None"
            \/ FirstUnbound(e[3], var) # "None"
            \/ UnboundComparand(Taken(e, var), var)

\* C21: eval returns Err(v), v the variable, whenever evaluation reaches a
\* variable the lookup has no value for, also when the variable is in a
\* comparand of an IfEqThen or IfLessThen; it never returns Ok after that.
C21_UnboundVariableIsErr ==
    (Evaluated3 /\ FirstUnbound(ast, lookup) # "None") =>
        evaluated[1] = Err(FirstUnbound(ast, lookup))

\* C21 for the expressions that reach no comparand with such a variable.
C21_UnboundOutsideComparandIsErr ==
    (Evaluated3 /\ FirstUnbound(ast, lookup) # "None"
               /\ ~UnboundComparand(ast, lookup)) =>
        evaluated[1] = Err(FirstUnbound(ast, lookup))

(***************************************************************************)
(* C22.  A reference run of a program over the integers: opcodes 1, 2, 7,  *)
(* 8 (operands by position or immediate, destination by position), 3, 4,   *)
(* 5, 6 and 99, on a memory of MemCells cells.                             *)
(***************************************************************************)
MemCells == 64

RefMemory(image) == [i \in 0 .. MemCells - 1 |-> IF i < Len(image) THEN image[i + 1] ELSE 0]

RefParam(mem, at, k) ==
    LET mode == (mem[at] \div (IF k = 1 THEN 100 ELSE 1000)) % 10 IN
    IF mode = 1 THEN mem[at + k] ELSE mem[mem[at + k]]

RefBinary(op, a, b) ==
    CASE op = 1 -> a + b
      [] op = 2 -> a * b
      [] op = 7 -> IF a < b THEN 1 ELSE 0
      [] op = 8 -> IF a = b THEN 1 ELSE 0

RECURSIVE RefRun(_, _, _, _, _)
RefRun(mem, at, inputs, out, fuel) ==
    LET op == mem[at] % 100 IN
    CASE fuel = 0 -> <<>>
      [] op = 99 -> out
      [] op \in {1, 2, 7, 8} ->
            RefRun([mem EXCEPT ![mem[at + 3]] =
                        RefBinary(op, RefParam(mem, at, 1), RefParam(mem, at, 2))],
                   at + 4, inputs, out, fuel - 1)
      [] op = 3 ->
            RefRun([mem EXCEPT ![mem[at + 1]] = Head(inputs)], at + 2, Tail(inputs),
                   out, fuel - 1)
      [] op = 4 -> RefRun(mem, at + 2, inputs, Append(out, RefParam(mem, at, 1)), fuel - 1)
      [] op \in {5, 6} ->
            RefRun(mem,
                   IF (op = 5) = (RefParam(mem, at, 1) # 0)
                   THEN RefParam(mem, at, 2) ELSE at + 3,
                   inputs, out, fuel - 1)

\* What the program writes on the inputs, by the reference run.
RefOutputs(image, inputs) == RefRun(RefMemory(image), 0, inputs, <<>>, MemCells)

\* The integer image an image of Constants stands for.
ConstantsOf(image) == [i \in DOMAIN image |-> image[i][2]]

\* The i32 machine of the model writes what the reference run writes.
SymConcreteIsReference ==
    (num = "i32" /\ stack = <<>> /\ ret.kind = "Ok") =>
        ret.out = RefOutputs(image0, inputs0)

\* C22: the output of the symbolic run, simplified under the empty condition
\* list and evaluated at a binding of the inputs, is the value the concrete
\* machine writes on those inputs.
C22_SymbolicRunAgreesWithConcrete ==
    (num = "ast" /\ evaluated # <<>>) =>
        evaluated[2] =
            Ok(RefOutputs(ConstantsOf(image0), <<lookup["x"], lookup["y"]>>)[1])

\* The same, away from the input 0 of the absolute-value program.
SymAgreesAwayFromAbsZero ==
    (num = "ast" /\ evaluated # <<>>
        /\ ~(image0 = Ast_image(AbsImage) /\ lookup["x"] = 0)) =>
        evaluated[2] =
            Ok(RefOutputs(ConstantsOf(image0), <<lookup["x"], lookup["y"]>>)[1])

(***************************************************************************)
(* C23.  Conditionals resolved by the condition list.                      *)
(***************************************************************************)
\* The branch of a node (4: then, 5: else) a condition of the kind settles,
\* 0 when it settles none.
Determines(kind, node) ==
    CASE node = "IfEqThen" /\ kind = "Equal" -> 4
      [] node = "IfEqThen" /\ kind \in {"NotEqual", "LessThan"} -> 5
      [] node = "IfLessThen" /\ kind = "LessThan" -> 4
      [] node = "IfLessThen" /\ kind \in {"Equal", "NotLess"} -> 5
      [] OTHER -> 0

IsConditional(e) == e[1] \in {"IfEqThen", "IfLessThen"}

\* The places of the conditions, newest first, that match the simplified
\* operands of the conditional e in order and settle a branch of it.
Settling(e, cs) ==
    { i \in 1 .. Len(cs) :
        /\ strict_equal(simplify(e[2], cs), cs[i][2])
        /\ strict_equal(simplify(e[3], cs), cs[i][3])
        /\ Determines(cs[i][1], e[1]) # 0 }

Newest(places) == CHOOSE i \in places : \A j \in places : i <= j

\* C23: a conditional whose simplified operands match a condition is
\* simplified to the simplification of the branch that the most recently
\* prepended such condition determines, and to nothing else.
C23_ConditionResolvesBranch ==
    (simplified # NoAst /\ IsConditional(ast) /\ Settling(ast, conds) # {}) =>
        simplified =
            simplify(ast[Determines(conds[Newest(Settling(ast, conds))][1], ast[1])],
                     conds)

\* Two conditions match and settle different branches.
C23_Witness ==
    /\ simplified # NoAst
    /\ IsConditional(ast)
    /\ \E i, j \in Settling(ast, conds) :
          /\ i < j
          /\ Determines(conds[i][1], ast[1]) # Determines(conds[j][1], ast[1])
          /\ simplify(ast[4], conds) # simplify(ast[5], conds)

\* The newest condition matches the operands and settles no branch of the
\* node; the one before it settles the then-branch.
C23_WitnessSkipped ==
    /\ simplified # NoAst
    /\ IsConditional(ast)
    /\ Settling(ast, conds) = {2}
    /\ strict_equal(simplify(ast[2], conds), conds[1][2])
    /\ strict_equal(simplify(ast[3], conds), conds[1][3])
    /\ simplified = simplify(ast[4], conds)
    /\ simplify(ast[4], conds) # simplify(ast[5], conds)

(***************************************************************************)
(* C24.  IfEqThen on concrete operands or on one variable twice.           *)
(***************************************************************************)
\* The simplified operands of the IfEqThen e are both concrete, or both the
\* same variable.
OperandsConcrete(e, cs) ==
    /\ simplify(e[2], cs)[1] \in {"Constant", "Zero", "One"}
    /\ simplify(e[3], cs)[1] \in {"Constant", "Zero", "One"}

OperandsSameVariable(e, cs) ==
    /\ simplify(e[2], cs)[1] = "Variable"
    /\ simplify(e[3], cs) = simplify(e[2], cs)

\* The branch the numbers decide: then (4) when equal, else (5) otherwise.
DecidedBranch(e, cs) ==
    IF OperandsSameVariable(e, cs) THEN 4
    ELSE IF eval(simplify(e[2], cs), <<>>).v = eval(simplify(e[3], cs), <<>>).v THEN 4
    ELSE 5

\* C24 as stated: the result is the simplification of the decided branch
\* whatever the condition list holds.
C24_ConcreteOperandsDecideAlone ==
    (simplified # NoAst /\ ast[1] = "IfEqThen"
        /\ (OperandsConcrete(ast, conds) \/ OperandsSameVariable(ast, conds))) =>
        simplified = simplify(ast[DecidedBranch(ast, conds)], conds)

\* C24 as amended: the same when no condition of the list matches the
\* operands and settles a branch.
C24_ConcreteOperandsDecideUnlessMatched ==
    (simplified # NoAst /\ ast[1] = "IfEqThen"
        /\ (OperandsConcrete(ast, conds) \/ OperandsSameVariable(ast, conds))
        /\ Settling(ast, conds) = {}) =>
        simplified = simplify(ast[DecidedBranch(ast, conds)], conds)

\* Equal concrete operands of different forms under a list that is not empty.
C24_Witness ==
    /\ simplified # NoAst
    /\ ast[1] = "IfEqThen"
    /\ OperandsConcrete(ast, conds)
    /\ ast[2] # ast[3]
    /\ DecidedBranch(ast, conds) = 4
    /\ conds # new
    /\ Settling(ast, conds) = {}
    /\ simplified = One

\* The same variable twice under a list that is not empty.
C24_WitnessSameVariable ==
    /\ simplified # NoAst
    /\ ast[1] = "IfEqThen"
    /\ OperandsSameVariable(ast, conds)
    /\ conds # new
    /\ Settling(ast, conds) = {}
    /\ simplified = One

(***************************************************************************)
(* C25.  strict_equal as a relation.                                       *)
(***************************************************************************)
\* The tree with every Zero written Constant(0) and every One Constant(1).
RECURSIVE Spelled(_)
Spelled(e) ==
    CASE e[1] = "Zero" -> Constant(0)
      [] e[1] = "One" -> Constant(1)
      [] e[1] \in {"Constant", "Variable"} -> e
      [] e[1] \in {"AddNode", "MulNode"} -> <<e[1], Spelled(e[2]), Spelled(e[3])>>
      [] OTHER -> <<e[1], Spelled(e[2]), Spelled(e[3]), Spelled(e[4]), Spelled(e[5])>>

\* strict_equal of the i-th operand with the j-th, once applied.
Related(i, j) == results[1][i][j]

\* C25: strict_equal is reflexive, symmetric and transitive; it holds of
\* two expressions exactly when they are the same tree up to writing Zero
\* for Constant(0) and One for Constant(1); and expressions it relates
\* evaluate alike under every lookup.
C25_StrictEqualIsSoundEquivalence ==
    (Len(args) = 3 /\ results # <<>>) =>
        /\ \A i \in 1 .. 3 : Related(i, i)
        /\ \A i, j \in 1 .. 3 : Related(i, j) => Related(j, i)
        /\ (Related(1, 2) /\ Related(2, 3)) => Related(1, 3)
        /\ \A i, j \in 1 .. 3 : Related(i, j) = (Spelled(args[i]) = Spelled(args[j]))
        /\ Len(results) = 2 =>
              \A i, j \in 1 .. 3 : Related(i, j) => results[2][i] = results[2][j]

\* Three different trees related in a chain, evaluated.
C25_Witness ==
    /\ Len(args) = 3
    /\ Len(results) = 2
    /\ args[1] # args[2] /\ args[2] # args[3] /\ args[1] # args[3]
    /\ Related(1, 2) /\ Related(2, 3)
    /\ args[1][1] = "AddNode"
    /\ results[2][1].ok

\* Expressions that evaluate alike and are not related.
C25_WitnessUnrelated ==
    /\ Len(args) = 3
    /\ Len(results) = 2
    /\ ~Related(1, 2)
    /\ results[2][1] = results[2][2]
    /\ results[2][1].ok

(***************************************************************************)
(* C26, C27.  The persistent list.                                         *)
(***************************************************************************)
\* What iterating the k-th list yields now.
Contents(k) == collect(nodes, List_iter(lists[k]))

\* C26: every list still yields what it yielded when prepend was called on
\* it, and the list a prepend returned yields the new element followed by
\* that sequence.
C26_PrependLeavesListAlone ==
    \A k \in 2 .. Len(lists) :
        /\ Contents(made[k].from) = made[k].was
        /\ Contents(k) = <<made[k].elem>> \o made[k].was

\* Two prepends from one list that is not empty, with different elements.
C26_Witness ==
    \E j, k \in 2 .. Len(lists) :
        /\ j < k
        /\ made[j].from = made[k].from
        /\ made[j].elem # made[k].elem
        /\ made[k].was # <<>>

\* The elements prepended to reach the k-th list, the latest first.
RECURSIVE Prepended(_)
Prepended(k) == IF k = 1 THEN <<>> ELSE <<made[k].elem>> \o Prepended(made[k].from)

IsPrefix(s, t) == Len(s) <= Len(t) /\ SubSeq(t, 1, Len(s)) = s

\* C27: an iterator has yielded the elements prepended to its list, the
\* latest first, as far as it has come; it ends after the oldest and not
\* before; and this whatever other iterators over the list have done.
C27_IterYieldsNewestFirst ==
    \A k \in 1 .. Len(iters) :
        /\ IsPrefix(iters[k].yielded, Prepended(iters[k].list))
        /\ iters[k].ended => iters[k].yielded = Prepended(iters[k].list)

\* Two iterators over one list of two different elements: the first has
\* ended, the second, made after it, has yielded the newest element only.
C27_Witness ==
    /\ Len(iters) = 2
    /\ iters[1].list = iters[2].list
    /\ iters[1].ended
    /\ Len(iters[1].yielded) = 2
    /\ iters[1].yielded[1] # iters[1].yielded[2]
    /\ iters[2].yielded = <<iters[1].yielded[1]>>

\* An iterator over the empty list has ended with nothing yielded.
C27_WitnessEmpty ==
    \E k \in 1 .. Len(iters) :
        /\ iters[k].list = 1
        /\ iters[k].ended
        /\ iters[k].yielded = <<>>

(***************************************************************************)
(* C28.  Comparing expressions.                                            *)
(***************************************************************************)
\* The number of an expression whose evaluation reaches no variable.
RECURSIVE Number(_)
Number(e) ==
    CASE e[1] = "Constant" -> e[2]
      [] e[1] = "Zero" -> 0
      [] e[1] = "One" -> 1
      [] e[1] = "AddNode" -> Number(e[2]) + Number(e[3])
      [] e[1] = "MulNode" -> Number(e[2]) * Number(e[3])
      [] e[1] = "IfEqThen" ->
            IF Number(e[2]) = Number(e[3]) THEN Number(e[4]) ELSE Number(e[5])
      [] e[1] = "IfLessThen" ->
            IF Number(e[2]) < Number(e[3]) THEN Number(e[4]) ELSE Number(e[5])
      [] OTHER -> 0

\* Evaluating the expression with no variable given a value reaches one.
ReachesVariable(e) == FirstUnbound(e, no_variables) # "None"

Compared == Len(args) = 2 /\ results # <<>>

\* C28: the comparison aborts whenever evaluating either operand reaches a
\* variable, and otherwise returns the comparison of the operands' numbers.
C28_ComparisonPanicsOnVariable ==
    Compared =>
        IF ReachesVariable(args[1]) \/ ReachesVariable(args[2])
        THEN results[1].panic
        ELSE /\ ~results[1].panic
             /\ results[1].eq = (Number(args[1]) = Number(args[2]))
             /\ results[1].lt = (Number(args[1]) < Number(args[2]))

\* C28 for operands that reach no variable in a comparand.
C28_PanicsOutsideComparands ==
    (Compared /\ ~UnboundComparand(args[1], no_variables)
              /\ ~UnboundComparand(args[2], no_variables)) =>
        IF ReachesVariable(args[1]) \/ ReachesVariable(args[2])
        THEN results[1].panic
        ELSE /\ ~results[1].panic
             /\ results[1].eq = (Number(args[1]) = Number(args[2]))
             /\ results[1].lt = (Number(args[1]) < Number(args[2]))

(***************************************************************************)
(* C29.  to_usize and to_i32 of each domain.                               *)
(***************************************************************************)
\* The value of a concrete domain is below zero.
IsNegative(x) ==
    CASE num = "i32" -> x < 0
      [] num = "i64" -> x[8] >= 128
      [] OTHER -> FALSE

\* The value of a concrete domain lies in i32::MIN ..= i32::MAX.
InI32Range(x) ==
    CASE num = "i32" -> TRUE
      [] num = "i64" ->
            \/ x[5] = 0 /\ x[6] = 0 /\ x[7] = 0 /\ x[8] = 0 /\ x[4] <= 127
            \/ x[5] = 255 /\ x[6] = 255 /\ x[7] = 255 /\ x[8] = 255 /\ x[4] > 127
      [] OTHER -> x[5] = 0 /\ x[6] = 0 /\ x[7] = 0 /\ x[8] = 0 /\ x[4] <= 127

\* The integer a concrete value of the i32 range is.
AsInteger(x) == IF num = "i32" THEN x ELSE CHOOSE k \in SmallValues : wide(k) = x

\* The address a concrete value that is not negative is: an integer below
\* 2^31, the value itself beyond.
AsAddress(x) == IF InI32Range(x) THEN AsInteger(x) ELSE x

\* Evaluating the expression with no variable given a value fails.
CannotEvaluate(x) == ~eval(x, no_variables).ok

Option(f) == results[CHOOSE i \in DOMAIN results : results[i].f = f].r

Converted(f) == Len(args) = 1 /\ Applied(f)

C29_WitnessUnsigned ==
    /\ Converted("to_usize") /\ Converted("to_i32")
    /\ num = "u64"
    /\ args[1] = BelowMinI32
    /\ Option("to_usize").some
    /\ ~Option("to_i32").some

\* A closed expression with a negative number is no address; it is an i32.
C29_WitnessNegativeExpression ==
    /\ Converted("to_usize") /\ Converted("to_i32")
    /\ num = "ast"
    /\ ~CannotEvaluate(args[1])
    /\ ~Option("to_usize").some
    /\ Option("to_i32").some

(***************************************************************************)
(* C30.  What execute returns.                                             *)
(***************************************************************************)
\* execute has returned Ok(_) and the caller has yet to act on it.
ExecuteReturned == frame.at = "returned" /\ outcome.kind = "Ok"

ReturnedSome == ExecuteReturned /\ outcome.v.some

ReturnedNone == ExecuteReturned /\ ~outcome.v.some

\* Some(v) is returned only with a value the last machine emitted during
\* this call.
SomeIsEmittedByLast ==
    ReturnedSome =>
        \E k \in DOMAIN emitted_by_last : emitted_by_last[k] = outcome.v.v

\* The machine is at a halt instruction.
Halted(m) == read_mem_elt(m, m.pc) % 100 = 99

AllTerminated == \A i \in 1 .. N : readiness[i].kind = "Terminated"

\* No machine can go on: none is Ready, the first does not wait for an input
\* this call still has to give, and no other machine waits behind a pending
\* output.
NoneCanProceed ==
    \A i \in 1 .. N :
        /\ readiness[i].kind # "Ready"
        /\ readiness[i].kind = "AwaitingInput" =>
              IF i = 1 THEN frame.first_input_consumed
              ELSE readiness[i - 1].kind = "AwaitingInput"

C30_WitnessSome ==
    /\ ReturnedSome
    /\ frame.input_to_first.some
    /\ Len(emitted_by_last) = 1

\* None with every entry Terminated.
C30_WitnessAllTerminated == ReturnedNone /\ AllTerminated

\* None with machines waiting for an input that does not come.
C30_WitnessWaiting ==
    ReturnedNone /\ \A i \in 1 .. N : readiness[i].kind = "AwaitingInput"

(***************************************************************************)
(* C31.  The feedback loop of part_2.                                      *)
(***************************************************************************)
\* s is t, or t without its last element.
AllButLastOf(s, t) ==
    /\ Len(s) \in {Len(t), Len(t) - 1}
    /\ \A k \in 1 .. Len(s) : s[k] = t[k]

\* part_2 has left its while loop and recorded the result of this phase
\* setting.
Recorded == caller = "part_2" /\ frame.at = "cleared"

FeedbackLoop == caller = "part_2" /\ traffic # <<>> /\ frame.at # "aborted"

\* The inputs the first machine was given after its first, 0.
FedBack == SubSeq(traffic.written[1], 2, Len(traffic.written[1]))

C31_WitnessNothingRecorded ==
    Recorded /\ traffic.emitted[N] # <<>> /\ ~outcome.v.some

(***************************************************************************)
(* C32.  Values passed from one machine to the next.                       *)
(***************************************************************************)
Scheduling == readiness # <<>> /\ frame.at \in {"for", "returned"}

\* Machine i (counted from 1) holds an output its successor has not taken.
Unconsumed(i) == Len(traffic.written[i + 1]) < Len(traffic.emitted[i])

C32_WitnessNeverTaken ==
    /\ ReturnedNone
    /\ \E i \in 1 .. N - 1 :
          Unconsumed(i) /\ traffic.reported[i + 1] = "Terminated"

(***************************************************************************)
(* C33.  Which machines execute resumes.                                   *)
(***************************************************************************)
\* execute has called execute_until_input on a machine.
Resumed == traffic # <<>> /\ traffic.resumed.was # "None"

\* C33: execute resumes a machine only when its entry is Ready, and then the
\* machine has last reported an output, or reported AwaitingInput and been
\* written to since: never AwaitingInput without a write, never Terminated.
C33_ResumedOnlyWhenReady ==
    Resumed =>
        /\ traffic.resumed.entry = "Ready"
        /\ traffic.resumed.was \in {"Written", "Output"}

\* In a later call of part_2 the last machine, marked Ready as the first
\* machine took the value fed back, is resumed after its output.
C33_Witness ==
    /\ Resumed
    /\ caller = "part_2"
    /\ frame.input_to_first.some
    /\ frame.first_input_consumed
    /\ traffic.resumed.i = N - 1
    /\ traffic.resumed.was = "Output"

\* A machine is resumed after the value it waited for was written.
C33_WitnessWritten ==
    /\ Resumed
    /\ traffic.resumed.i > 0
    /\ traffic.resumed.was = "Written"
    /\ traffic.written[traffic.resumed.i + 1] # <<>>

(***************************************************************************)
(* C34.  A conditional operand of a sum or product with a constant.        *)
(***************************************************************************)
\* The expression is a sum or product of a conditional and a Constant.
ConditionalWithConstant(e) ==
    /\ e[1] \in {"AddNode", "MulNode"}
    /\ \/ e[2][1] \in {"IfEqThen", "IfLessThen"} /\ e[3][1] = "Constant"
       \/ e[2][1] = "Constant" /\ e[3][1] \in {"IfEqThen", "IfLessThen"}

ConditionalOf(e) == IF e[2][1] = "Constant" THEN e[3] ELSE e[2]

ConstantOf(e) == IF e[2][1] = "Constant" THEN e[2] ELSE e[3]

\* The fact of a branch of the conditional c.
FactOf(c, then) ==
    IF c[1] = "IfEqThen"
    THEN (IF then THEN Equal(c[2], c[3]) ELSE NotEqual(c[2], c[3]))
    ELSE (IF then THEN LessThan(c[2], c[3]) ELSE NotLess(c[2], c[3]))

\* The conditional c with the operation and the constant k moved into its
\* branches, each simplified under the conditions and the branch's fact.
PushedOutward(op, c, k, conditions) ==
    <<c[1], c[2], c[3],
      simplify(<<op, c[4], k>>, prepend(conditions, FactOf(c, TRUE))),
      simplify(<<op, c[5], k>>, prepend(conditions, FactOf(c, FALSE)))>>

\* The conditional operand as simplify leaves it, under the conditions.
OperandSimplified == simplify(ConditionalOf(ast), conds)

\* The conditional operand is still a conditional of its kind once simplified.
StaysConditional == OperandSimplified[1] = ConditionalOf(ast)[1]

\* The constant neither leaves the other operand as it is nor absorbs it.
Neutral(op, k) == (op = "AddNode" /\ k[2] = 0) \/ (op = "MulNode" /\ k[2] \in {0, 1})

\* C34: simplifying a sum or product of a conditional (IfEqThen or
\* IfLessThen) and a constant k gives the conditional on the same comparison
\* with the simplifications of (then op k) and (else op k) as branches, each
\* under the conditions extended with the fact of its branch.
C34_ConditionalPushedOutward ==
    (simplified # NoAst /\ ConditionalWithConstant(ast) /\ StaysConditional) =>
        simplified = PushedOutward(ast[1], OperandSimplified, ConstantOf(ast), conds)

\* A product with the constant on the right is turned round and simplified
\* anew, so its conditional operand has been simplified twice when it is
\* looked at.
OperandLookedAt ==
    IF ast[1] = "MulNode" /\ ast[3][1] = "Constant"
    THEN simplify(OperandSimplified, conds)
    ELSE OperandSimplified

\* C34 for the operand as simplify looks at it, for IfLessThen alone, and
\* for a constant that is not neutral; a sum or product of an IfEqThen and
\* such a constant stays a sum or product.
C34_IfLessPushedOutward ==
    (/\ simplified # NoAst
     /\ ConditionalWithConstant(ast)
     /\ OperandLookedAt[1] = ConditionalOf(ast)[1]
     /\ ~Neutral(ast[1], ConstantOf(ast))) =>
        IF OperandLookedAt[1] = "IfLessThen"
        THEN simplified =
                PushedOutward(ast[1], OperandLookedAt, ConstantOf(ast), conds)
        ELSE simplified[1] = ast[1]

\* 2 is added to both branches of IfLessThen(x, y, 1, 2).
C34_Witness ==
    /\ simplified = IfLessThen(Variable("x"), Variable("y"), Constant(3), Constant(4))
    /\ ast[1] = "AddNode"
    /\ ConditionalOf(ast) = IfLessThen(Variable("x"), Variable("y"), One, Constant(2))
    /\ ConstantOf(ast) = Constant(2)

\* A product is moved into the branches of a conditional with a sum for a
\* branch.
C34_WitnessProduct ==
    /\ simplified # NoAst
    /\ ast[1] = "MulNode"
    /\ ConstantOf(ast) = Constant(-1)
    /\ OperandLookedAt[1] = "IfLessThen"
    /\ OperandLookedAt[4][1] = "AddNode"
    /\ simplified = PushedOutward("MulNode", OperandLookedAt, Constant(-1), conds)

\* A sum of an IfEqThen and 2 stays a sum.
C34_WitnessIfEqKept ==
    /\ simplified # NoAst
    /\ ConditionalWithConstant(ast)
    /\ OperandLookedAt[1] = "IfEqThen"
    /\ ConstantOf(ast) = Constant(2)
    /\ simplified = AddNode(OperandLookedAt, Constant(2))

\* execute_to_end has returned the NoInput error.
NoInputReturned == Returned /\ ret.kind = "NoInput"

\* C35: when execute_to_end fails with NoInput the machine is as it was
\* before the input instruction that found no input: the program counter
\* still designates that instruction, and memory and relative base are
\* unchanged.
C35_NoInputCommitsNothing ==
    NoInputReturned =>
        /\ read_mem_elt(prev, prev.pc) % 100 = 3
        /\ pc = prev.pc
        /\ memory = prev.memory
        /\ sparse_memory = prev.sparse_memory
        /\ relative_base = prev.relative_base

\* What the code leaves behind: memory and relative base as before the input
\* instruction, the program counter past it.
C35_NoInputPastInstruction ==
    NoInputReturned =>
        /\ read_mem_elt(prev, prev.pc) % 100 = 3
        /\ pc = prev.pc + 2
        /\ memory = prev.memory
        /\ sparse_memory = prev.sparse_memory
        /\ relative_base = prev.relative_base

\* A step of the model in which one_step is called: by the caller, or by the
\* loop of execute_until_input.
OneStepTaken == OneStepCall \/ ExecuteUntilInputLoop

\* C36: once one_step has returned Terminated (last; a set_mem_elt call
\* clears it), the next one_step returns Terminated again and leaves memory,
\* program counter and relative base as they are; hence so does every later
\* one.
C36_TerminatedIsAbsorbing ==
    [][(last.kind = "Terminated" /\ OneStepTaken) =>
            /\ last'.kind = "Terminated"
            /\ UNCHANGED machine_vars]_vars

\* 1,0,0,0,99 has halted within the first two of three calls, none of them a
\* write by the caller, so the halted machine has been stepped again.
C36_Witness ==
    /\ image0 = <<1, 0, 0, 0, 99>>
    /\ memory = <<2, 0, 0, 0, 99>>
    /\ sparse_memory = EmptyMap
    /\ calls = 3
    /\ stack = <<>>
    /\ pc = 4
    /\ last.kind = "Terminated"
    /\ ret.kind = "Terminated"

\* The latest one_step found the program counter beyond the image, at an
\* address nothing had been written to.
SteppedPastImage ==
    /\ last.kind # "None"
    /\ prev.pc >= Len(image0)
    /\ prev.pc \notin DOMAIN prev.sparse_memory

\* C37: when the program counter has run past the end of the image to an
\* address that was never written, the cell there reads as zero and one_step
\* fails with BadOpcode(0, pc), leaving the machine as it is; a run that gets
\* there has not terminated normally.
C37_PastImageIsBadOpcodeZero ==
    SteppedPastImage =>
        /\ read_mem_elt(prev, prev.pc) = 0
        /\ last = BadOpcode(0, prev.pc)
        /\ Self = prev
        /\ Returned => ret.kind = "BadOpcode"

\* 1101,104,0,6,104,1 writes an output instruction to address 6, runs through
\* it (its operand at 7 reads as zero) and fails at address 8.
C37_Witness ==
    /\ image0 = <<1101, 104, 0, 6, 104, 1>>
    /\ emitted = <<1, 0>>
    /\ last = BadOpcode(0, 8)
    /\ ret.kind = "BadOpcode"
    /\ SteppedPastImage

\* 1,0,0,0 fails at address 4, the first one beyond its image.
C37_WitnessStraightOff ==
    /\ image0 = <<1, 0, 0, 0>>
    /\ last = BadOpcode(0, 4)
    /\ SteppedPastImage

\* The caller has written 99 beyond the image and the run ends there.
C37_WitnessWrittenHalt ==
    /\ image0 = <<1105, 1, 7>>
    /\ prev.pc = 7
    /\ last.kind = "Terminated"

\* if_less_then_else has been applied and what it built evaluated.
BuiltEvaluated == Len(args) = 4 /\ Len(results) = 2

\* eval(t) when eval(a) < eval(b), eval(e) otherwise, under the binding of
\* the evaluation.
Selected ==
    IF results[2].operands[1].v < results[2].operands[2].v
    THEN results[2].operands[3]
    ELSE results[2].operands[4]

\* C38: for every binding of the variables, the expression built by
\* if_less_then_else(a, b, t, e) evaluates to eval(t) when eval(a) < eval(b)
\* and to eval(e) otherwise, the absolute-value pattern at v = 0 included.
C38_IfLessThenElseSelects ==
    BuiltEvaluated => results[2].built = Selected

\* a is zero and b is IfLessThen(0, v, v, -1 * v) for one variable v.
IsAbsoluteValueCase ==
    /\ args[1] \in {Zero, Constant(0)}
    /\ args[2] \in {AbsoluteValue(Zero, "x", "x"), AbsoluteValue(Constant(0), "x", "x")}

\* What the code does: the same, except that for the absolute-value pattern
\* the expression built is t itself.
C38_SelectsExceptAbsoluteValue ==
    BuiltEvaluated =>
        IF IsAbsoluteValueCase
        THEN results[1] = args[3]
        ELSE results[2].built = Selected

\* C39: simplify returns for every expression and condition list: no call
\* of it, on the expression or on what it returned, runs out of call stack
\* by re-invoking itself on the nodes it builds.
C39_SimplifyReturns ==
    /\ simplified # NoAst => simplified # Exhausted
    /\ resimplified # NoAst => resimplified # Exhausted

\* (x + y) * 2 has been turned round, the constant distributed over the sum,
\* and the result simplified again.
C39_Witness ==
    /\ ast = MulNode(AddNode(Variable("x"), Variable("y")), Constant(2))
    /\ conds = new
    /\ simplified \notin {NoAst, Exhausted}
    /\ resimplified = AddNode(MulNode(Constant(2), Variable("x")),
                              MulNode(Constant(2), Variable("y")))

\* (2 + IfLessThen(x, y, 1, 2)) + x * -1: the nested sum is re-associated,
\* the constant pushed into the conditional and the product turned round.
C39_WitnessPushed ==
    /\ ast = AddNode(AddNode(Constant(2),
                             IfLessThen(Variable("x"), Variable("y"), One, Constant(2))),
                     MulNode(Variable("x"), Constant(-1)))
    /\ conds = new
    /\ simplified \notin {NoAst, Exhausted}
    /\ resimplified =
          AddNode(IfLessThen(Variable("x"), Variable("y"), Constant(3), Constant(4)),
                  MulNode(Constant(-1), Variable("x")))

====
